---- MODULE Spec2Model ----
(***************************************************************************)
(* Model of the expiry-date annotation tool: the concurrent annotation     *)
(* store (AnnotationManager over FileLock) as a state machine over a       *)
(* shared directory, one process per operator.                             *)
(***************************************************************************)
EXTENDS Integers, Sequences, FiniteSets, TLC

(***************************************************************************)
(* Bounds of the model.                                                    *)
(***************************************************************************)
NProcs == 2
NCrops == 2
MaxCalls == 1
MaxRetries == 2
MaxSeqCalls == 1
RotSaves == 12
MaxStartCalls == 2
NCadCrops == 6
MaxCadCalls == 2
NLoaded == 3
MaxLockCalls == 2
NImages == 5
NBoxes == 4
NCandidates == 6
NViewImages == 2
NZoomArgs == 2
MaxSetCalls == 2
MaxKeys == 2
NKeys == 6
MaxStopCalls == 1
MaxStopKeys == 1
NEdgeBoxes == 3
NEdgeSizes == 5
NKeyImages == 2
MaxKeyPresses == 1
MaxPairCalls == 1
MaxPairKeys == 1
MaxUndoCalls == 2
MaxStaleCalls == 1
MaxKeepCalls == 1

(***************************************************************************)
(* Program constants.                                                      *)
(***************************************************************************)
DefaultMaxRetries == 3
KeepBackups == 10
SaveInterval == 5

Procs == 1..NProcs
AllCropIds == <<"train_a_box0", "valid_b_box1", "test_c_box0", "train_d_box2",
                "valid_e_box0", "test_f_box3", "train_g_box1">>
CropIds == {AllCropIds[i] : i \in 1..NCrops}

(***************************************************************************)
(* Python values.  None is the string "None"; JSON null is "null".         *)
(***************************************************************************)
None == "None"
JsonNull == "null"

\* AnnotationStatus: enum member -> value
AnnotationStatus == [ANNOTATED |-> "anotado", ILLEGIBLE |-> "ilegivel", PENDING |-> "pendente"]

\* AnnotationStatus(value): the member with that value
StatusOfValue(v) == CHOOSE m \in DOMAIN AnnotationStatus : AnnotationStatus[m] = v

\* the crop a crop_id names: image, subset, box index and the YOLO box read for it
CropInfo(c) ==
    IF c = "train_a_box0" THEN
        [image |-> "a.jpg", subset |-> "train", box_index |-> 0,
         box |-> [class_id |-> 0, class_name |-> "date", type |-> "bbox",
                  x_center |-> 400, y_center |-> 400, width |-> 200, height |-> 200]]
    ELSE IF c = "valid_b_box1" THEN
        [image |-> "b.png", subset |-> "valid", box_index |-> 1,
         box |-> [class_id |-> 1, class_name |-> "class_1", type |-> "polygon",
                  coords |-> <<100, 100, 300, 100, 300, 250>>]]
    ELSE IF c = "test_c_box0" THEN
        [image |-> "c.jpg", subset |-> "test", box_index |-> 0,
         box |-> [class_id |-> 0, class_name |-> "date", type |-> "bbox",
                  x_center |-> 500, y_center |-> 500, width |-> 100, height |-> 50]]
    ELSE IF c = "train_d_box2" THEN
        [image |-> "d.jpeg", subset |-> "train", box_index |-> 2,
         box |-> [class_id |-> 0, class_name |-> "date", type |-> "polygon",
                  coords |-> <<0, 0, 1000, 0, 1000, 1000, 0, 1000>>]]
    ELSE IF c = "valid_e_box0" THEN
        [image |-> "e.jpg", subset |-> "valid", box_index |-> 0,
         box |-> [class_id |-> 0, class_name |-> "date", type |-> "bbox",
                  x_center |-> 250, y_center |-> 750, width |-> 100, height |-> 100]]
    ELSE IF c = "test_f_box3" THEN
        [image |-> "f.png", subset |-> "test", box_index |-> 3,
         box |-> [class_id |-> 0, class_name |-> "date", type |-> "bbox",
                  x_center |-> 900, y_center |-> 100, width |-> 150, height |-> 60]]
    ELSE
        [image |-> "g.jpg", subset |-> "train", box_index |-> 1,
         box |-> [class_id |-> 1, class_name |-> "class_1", type |-> "bbox",
                  x_center |-> 500, y_center |-> 500, width |-> 1000, height |-> 1000]]

\* the operator's date input and its normalized form
DateInputs == {[raw |-> "311225", normalized |-> "2025-12-31"]}

_create_geometry(box) ==
    IF box.type = "polygon"
    THEN [type |-> "polygon", coords |-> box.coords]
    ELSE [type |-> "bbox", x_center |-> box.x_center, y_center |-> box.y_center,
          width |-> box.width, height |-> box.height]

\* the Annotation dataclass
Annotation(crop_id, image_name, subset, box_index, class_id, class_name, geometry, expiry_date, expiry_date_raw, status, timestamp) ==
    [crop_id |-> crop_id, image_name |-> image_name, subset |-> subset,
     box_index |-> box_index, class_id |-> class_id, class_name |-> class_name,
     geometry |-> geometry, expiry_date |-> expiry_date,
     expiry_date_raw |-> expiry_date_raw, status |-> status, timestamp |-> timestamp]

to_dict(a) ==
    [image |-> a.image_name, subset |-> a.subset, box_index |-> a.box_index,
     class_id |-> a.class_id, class_name |-> a.class_name, annotation |-> a.geometry,
     expiry_date |-> a.expiry_date, expiry_date_raw |-> a.expiry_date_raw,
     status |-> AnnotationStatus[a.status], timestamp |-> a.timestamp]

\* dict.get(key): None when the key is missing
DictGet(d, k) == IF k \in DOMAIN d THEN d[k] ELSE None

RequiredByFromDict == {"image", "subset", "box_index", "class_id", "class_name",
                       "annotation", "status", "timestamp"}

\* from_dict raises KeyError on a missing key, ValueError on an unknown status
FromDictRaises(d) ==
    \/ ~(RequiredByFromDict \subseteq DOMAIN d)
    \/ ~(\E m \in DOMAIN AnnotationStatus : AnnotationStatus[m] = d.status)

\* from_dict with expiry_date_raw read from the wrong key
from_dict_wrong_key(crop_id, d) ==
    Annotation(crop_id, d.image, d.subset, d.box_index, d.class_id, d.class_name,
               d.annotation, DictGet(d, "expiry_date"), DictGet(d, "expiry_date"),
               StatusOfValue(d.status), d.timestamp)

from_dict(crop_id, d) ==
    Annotation(crop_id, d.image, d.subset, d.box_index, d.class_id, d.class_name,
               d.annotation, DictGet(d, "expiry_date"), DictGet(d, "expiry_date_raw"),
               StatusOfValue(d.status), d.timestamp)

(***************************************************************************)
(* JSON: json.dump writes None as null, json.load reads null as None.      *)
(***************************************************************************)
JsonDumpValue(v) == IF v = None THEN JsonNull ELSE v
JsonLoadValue(v) == IF v = JsonNull THEN None ELSE v
NullableFields == {"expiry_date", "expiry_date_raw"}

JsonDumpEntry(d) == [k \in DOMAIN d |-> IF k \in NullableFields THEN JsonDumpValue(d[k]) ELSE d[k]]
JsonLoadEntry(j) == [k \in DOMAIN j |-> IF k \in NullableFields THEN JsonLoadValue(j[k]) ELSE j[k]]

json_dump(doc) == [c \in DOMAIN doc |-> JsonDumpEntry(doc[c])]
json_load(text) == [c \in DOMAIN text |-> JsonLoadEntry(text[c])]

(***************************************************************************)
(* dict helpers                                                            *)
(***************************************************************************)
EmptyDict == [c \in {} |-> None]
Put(f, k, v) == [x \in (DOMAIN f) \cup {k} |-> IF x = k THEN v ELSE f[x]]
Del(f, k) == [x \in (DOMAIN f) \ {k} |-> f[x]]
\* for crop_id, ann in b.items(): a[crop_id] = ann
Update(a, b) == [x \in (DOMAIN a) \cup (DOMAIN b) |-> IF x \in DOMAIN b THEN b[x] ELSE a[x]]

(***************************************************************************)
(* Files.  kind: "absent" (no such path), "empty" (created or truncated,   *)
(* nothing written yet), "partial" (some bytes of a document, or bytes of  *)
(* two writers overlaid), "json" (a complete document that is an object,   *)
(* in data), "array" (the complete document [], which is no object).       *)
(***************************************************************************)
NoFile == [kind |-> "absent", data |-> EmptyDict]
EmptyFile == [kind |-> "empty", data |-> EmptyDict]
PartialFile == [kind |-> "partial", data |-> EmptyDict]
ArrayFile == [kind |-> "array", data |-> EmptyDict]
JsonFile(text) == [kind |-> "json", data |-> text]
Exists(f) == f.kind # "absent"
Parseable(f) == f.kind = "json"

(***************************************************************************)
(* State.  The shared directory: the sentinel (0 = absent, else the        *)
(* process whose touch created it), the annotation file, its .tmp sibling, *)
(* the backup directory (timestamp name -> content) and the wall clock.    *)
(* Per process: the position in the running operation, the in-memory       *)
(* collection, the locals of save() and of its FileLock, the place of the  *)
(* inode it has open for writing, and what the last call handed back.      *)
(* Kept for the properties: call, the record of the running save() call    *)
(* (the collection at entry, whether an attempt acquired, what it wrote);  *)
(* file_src, how the annotation file got its content; backup_log, every    *)
(* backup name ever written; new_count, for the stores whose commits are   *)
(* counted, how many annotations of crop ids the store did not hold it has *)
(* committed, modulo the save interval.                                    *)
(* The display: the fields of the DisplayManager object, the frame of the  *)
(* render thread (position and locals of _display_loop), the frame of the  *)
(* decision thread (position and the arguments of the call it is in), and, *)
(* kept for the properties, shown: the last crop _apply_zoom_pan produced  *)
(* and who wrote each field of the viewport.  args and result are the      *)
(* inputs and the outputs of the functions applied on their own.           *)
(***************************************************************************)
VARIABLES lock_file, annotations_file, temp_file, backups, now,
          pc, annotations, attempt, max_retries, lock_acquired,
          existing_annotations, pending, fd, copy_src, ret, calls, new_count,
          call, file_src, backup_log,
          display, render, decision, shown, args, result

store == <<lock_file, annotations_file, temp_file, backups, now,
           pc, annotations, attempt, max_retries, lock_acquired,
           existing_annotations, pending, fd, copy_src, ret, calls, new_count,
           call, file_src, backup_log>>

view == <<display, render, decision, shown, args, result>>

vars == <<store, view>>

shared == <<lock_file, annotations_file, temp_file, backups, file_src, backup_log>>
locals == <<attempt, max_retries, lock_acquired, existing_annotations, pending, copy_src>>

NoRet == [op |-> "none", value |-> None, via |-> "none"]
NoCall == [annotations |-> EmptyDict, acquired |-> FALSE, wrote |-> {}]
NoSrc == [by |-> 0, fresh |-> FALSE, annotations |-> EmptyDict]
NoCopy == [name |-> 0, file |-> NoFile]

(***************************************************************************)
(* Python floats are modelled as exact fractions [n, d] in lowest terms     *)
(* (d > 0): the rounding error of double arithmetic is left out, int() and  *)
(* round() are kept.                                                        *)
(***************************************************************************)
RECURSIVE GCD(_, _)
GCD(a, b) == IF b = 0 THEN a ELSE GCD(b, a % b)

Abs(i) == IF i < 0 THEN -i ELSE i

Q(n, d) ==
    LET g == GCD(Abs(n), d) IN [n |-> n \div g, d |-> d \div g]

QInt(i) == [n |-> i, d |-> 1]
QLess(a, b) == a.n * b.d < b.n * a.d
QLeq(a, b) == a.n * b.d <= b.n * a.d
QMin(a, b) == IF QLess(b, a) THEN b ELSE a
QMax(a, b) == IF QLess(a, b) THEN b ELSE a
QAdd(a, b) == Q(a.n * b.d + b.n * a.d, a.d * b.d)
QSub(a, b) == Q(a.n * b.d - b.n * a.d, a.d * b.d)
QMul(a, b) == Q(a.n * b.n, a.d * b.d)
QDiv(a, b) == IF b.n > 0 THEN Q(a.n * b.d, a.d * b.n) ELSE Q(-(a.n * b.d), a.d * (-b.n))

\* int(x): towards zero
Trunc(a) == IF a.n >= 0 THEN a.n \div a.d ELSE -((-a.n) \div a.d)

\* round(x): to the nearest integer, a tie to the even one
Round(a) ==
    LET f == a.n \div a.d
        twice == 2 * (a.n - f * a.d)
    IN  IF twice < a.d THEN f
        ELSE IF twice > a.d THEN f + 1
        ELSE IF f % 2 = 0 THEN f ELSE f + 1

Max(i, j) == IF i < j THEN j ELSE i
Min(i, j) == IF j < i THEN j ELSE i

(***************************************************************************)
(* Display configuration (DisplayConfig, ZoomConfig) and the fixed fields   *)
(* of DisplayManager.                                                       *)
(***************************************************************************)
max_width == 1200
max_height == 800
min_width == 400
min_height == 300
auto_zoom_coverage == Q(6, 10)
max_zoom == Q(5, 1)
zoom_step == Q(2, 10)
pan_step == 50
MIN_ZOOM_FOR_SAFETY == Q(1, 100)
window_width == 640
window_height == 640
brightness_step == 10
contrast_step == Q(1, 10)
rotation_step == 10

\* current_image before the first update_image (None); an image is its
\* size and what _detect_content_bbox_robust finds in it
NoBox == <<0, 0, 0, 0>>
NoImage == [w |-> 0, h |-> 0, bbox |-> NoBox]

\* who wrote a field of the viewport: the set_zoom_pan call (0 for any other
\* writer) and how many set_zoom_pan calls had begun by then
NoStamp == [call |-> 0, epoch |-> 0]

NoFrame == [cols |-> 0, rows |-> 0, pad_right |-> 0, pad_bottom |-> 0, torn |-> FALSE]

NoReads == [zoom_w |-> NoStamp, zoom_h |-> NoStamp, pan_x |-> NoStamp]

\* DisplayManager.__init__
NewDisplay == [zoom_level |-> QInt(1), pan_x |-> 0, pan_y |-> 0, brightness |-> 0, contrast |-> QInt(1), rotation |-> 0, current_image |-> NoImage, should_update |-> FALSE, stop_flag |-> FALSE, thread |-> "None"]

NoRender == [pc |-> "none", base |-> <<0, 0>>, zoom_w |-> QInt(1), zoom_h |-> QInt(1), pan_x |-> 0, old_zoom |-> QInt(1), by |-> NoReads, key |-> "none", keys |-> 0]

NoDecision == [pc |-> "init", zoom |-> QInt(1), pan_x |-> 0, pan_y |-> 0, calls |-> 0]

NoShown == [frames |-> 0, frame |-> NoFrame, zoom_level |-> NoStamp, pan_x |-> NoStamp, pan_y |-> NoStamp]

NoArgs == [f |-> "none"]
NoResult == [f |-> "none"]

\* the display as constructed, no thread started, no function applied
ViewInit ==
    /\ display = NewDisplay
    /\ render = NoRender
    /\ decision = NoDecision
    /\ shown = NoShown
    /\ args = NoArgs
    /\ result = NoResult

\* AnnotationManager.__init__ in every process of `running`, over an empty
\* output directory; the other processes are not started
StoreInit(running) ==
    /\ lock_file = 0
    /\ annotations_file = NoFile
    /\ temp_file = NoFile
    /\ backups = EmptyDict
    /\ now = 0
    /\ pc = [p \in Procs |-> IF p \in running THEN "idle" ELSE "stopped"]
    /\ annotations = [p \in Procs |-> EmptyDict]
    /\ attempt = [p \in Procs |-> 0]
    /\ max_retries = [p \in Procs |-> 0]
    /\ lock_acquired = [p \in Procs |-> FALSE]
    /\ existing_annotations = [p \in Procs |-> EmptyDict]
    /\ pending = [p \in Procs |-> "none"]
    /\ fd = [p \in Procs |-> "none"]
    /\ copy_src = [p \in Procs |-> NoCopy]
    /\ ret = [p \in Procs |-> NoRet]
    /\ calls = [p \in Procs |-> 0]
    /\ new_count = [p \in {} |-> 0]
    /\ call = [p \in Procs |-> NoCall]
    /\ file_src = NoSrc
    /\ backup_log = {}

InitWith(running) == StoreInit(running) /\ ViewInit

Init == InitWith(Procs)

(***************************************************************************)
(* The store's in-memory operations.                                       *)
(***************************************************************************)
\* entry of save(max_retries): range(max_retries) is empty for 0
SaveEntry(p, mr, anns) ==
    /\ max_retries' = [max_retries EXCEPT ![p] = mr]
    /\ attempt' = [attempt EXCEPT ![p] = 0]
    /\ lock_acquired' = [lock_acquired EXCEPT ![p] = FALSE]
    /\ pending' = [pending EXCEPT ![p] = "none"]
    /\ calls' = [calls EXCEPT ![p] = @ + 1]
    /\ call' = [call EXCEPT ![p] = [annotations |-> anns, acquired |-> FALSE, wrote |-> {}]]
    /\ IF mr > 0
       THEN /\ pc' = [pc EXCEPT ![p] = "acquire"]
            /\ ret' = [ret EXCEPT ![p] = NoRet]
       ELSE /\ pc' = [pc EXCEPT ![p] = "idle"]
            /\ ret' = [ret EXCEPT ![p] = [op |-> "save", value |-> None, via |-> "exhausted"]]

\* _auto_save that saves on every commit
_auto_save_every_commit(p, anns) == SaveEntry(p, DefaultMaxRetries, anns)

\* _auto_save, after the collection became anns
_auto_save(p, anns) ==
    IF Cardinality(DOMAIN anns) % SaveInterval = 0
    THEN SaveEntry(p, DefaultMaxRetries, anns)
    ELSE /\ ret' = [ret EXCEPT ![p] = NoRet]
         /\ call' = [call EXCEPT ![p] = NoCall]
         /\ UNCHANGED <<pc, attempt, max_retries, lock_acquired, pending, calls>>

\* self.annotations[crop_id] = annotation; self._auto_save()
Commit(p, a, limit) ==
    /\ pc[p] = "idle"
    /\ calls[p] < limit
    /\ annotations' = [annotations EXCEPT ![p] = Put(@, a.crop_id, a)]
    /\ new_count' = IF p \in DOMAIN new_count /\ a.crop_id \notin DOMAIN annotations[p]
                    THEN [new_count EXCEPT ![p] = (@ + 1) % SaveInterval]
                    ELSE new_count
    /\ _auto_save(p, Put(annotations[p], a.crop_id, a))
    /\ UNCHANGED <<shared, now, existing_annotations, fd, copy_src>>

add_annotation(p, crop_id, date, limit) ==
    LET info == CropInfo(crop_id) IN
    Commit(p, Annotation(crop_id, info.image, info.subset, info.box_index,
                         info.box.class_id, info.box.class_name,
                         _create_geometry(info.box), date.normalized, date.raw,
                         "ANNOTATED", now), limit)

add_illegible(p, crop_id, limit) ==
    LET info == CropInfo(crop_id) IN
    Commit(p, Annotation(crop_id, info.image, info.subset, info.box_index,
                         info.box.class_id, info.box.class_name,
                         _create_geometry(info.box), None, None,
                         "ILLEGIBLE", now), limit)

remove_annotation(p, crop_id, limit) ==
    /\ pc[p] = "idle"
    /\ calls[p] < limit
    /\ annotations' = [annotations EXCEPT ![p] = IF crop_id \in DOMAIN @ THEN Del(@, crop_id) ELSE @]
    /\ ret' = [ret EXCEPT ![p] = NoRet]
    /\ call' = [call EXCEPT ![p] = NoCall]
    /\ UNCHANGED <<shared, now, pc, locals, fd, calls, new_count>>

(***************************************************************************)
(* save(): one action per step that reads or writes the shared directory.  *)
(***************************************************************************)
save(p, mr, limit) ==
    /\ pc[p] = "idle"
    /\ calls[p] < limit
    /\ SaveEntry(p, mr, annotations[p])
    /\ UNCHANGED <<shared, now, annotations, existing_annotations, fd, copy_src, new_count>>

\* a retry loop without the attempt count: every failed attempt goes round
AttemptEndsNoCount(p, how) ==
    /\ existing_annotations' = [existing_annotations EXCEPT ![p] = EmptyDict]
    /\ lock_acquired' = [lock_acquired EXCEPT ![p] = FALSE]
    /\ pending' = [pending EXCEPT ![p] = "none"]
    /\ IF how = "return"
       THEN /\ pc' = [pc EXCEPT ![p] = "idle"]
            /\ ret' = [ret EXCEPT ![p] = [op |-> "save", value |-> None, via |-> "written"]]
            /\ attempt' = [attempt EXCEPT ![p] = 0]
            /\ max_retries' = [max_retries EXCEPT ![p] = 0]
       ELSE /\ pc' = [pc EXCEPT ![p] = "acquire"]
            /\ UNCHANGED <<ret, max_retries, attempt>>

\* how an attempt of save() ends once the with block is left (or was never
\* entered): "return" is the return of line 175; the others are the except
\* clauses, which sleep and go round the loop, or fall off its end
AttemptEnds(p, how) ==
    /\ existing_annotations' = [existing_annotations EXCEPT ![p] = EmptyDict]
    /\ lock_acquired' = [lock_acquired EXCEPT ![p] = FALSE]
    /\ pending' = [pending EXCEPT ![p] = "none"]
    /\ IF how = "return"
       THEN /\ pc' = [pc EXCEPT ![p] = "idle"]
            /\ ret' = [ret EXCEPT ![p] = [op |-> "save", value |-> None, via |-> "written"]]
            /\ attempt' = [attempt EXCEPT ![p] = 0]
            /\ max_retries' = [max_retries EXCEPT ![p] = 0]
       ELSE IF attempt[p] < max_retries[p] - 1
            THEN /\ pc' = [pc EXCEPT ![p] = "acquire"]
                 /\ attempt' = [attempt EXCEPT ![p] = @ + 1]
                 /\ UNCHANGED <<ret, max_retries>>
            ELSE /\ pc' = [pc EXCEPT ![p] = "idle"]
                 /\ ret' = [ret EXCEPT ![p] = [op |-> "save", value |-> None, via |-> "exhausted"]]
                 /\ attempt' = [attempt EXCEPT ![p] = 0]
                 /\ max_retries' = [max_retries EXCEPT ![p] = 0]

\* FileLock.acquire: the poll finds no sentinel
AcquireCheck(p) ==
    /\ pc[p] = "acquire"
    /\ lock_file = 0
    /\ pc' = [pc EXCEPT ![p] = "touch"]
    /\ UNCHANGED <<shared, now, annotations, locals, fd, ret, calls, new_count, call>>

\* FileLock.acquire: lock_file.touch() after the check; touch of an existing
\* file creates nothing
AcquireTouch(p) ==
    /\ pc[p] = "touch"
    /\ lock_file' = IF lock_file = 0 THEN p ELSE lock_file
    /\ lock_acquired' = [lock_acquired EXCEPT ![p] = TRUE]
    /\ call' = [call EXCEPT ![p].acquired = TRUE]
    /\ pc' = [pc EXCEPT ![p] = "backup"]
    /\ UNCHANGED <<annotations_file, temp_file, backups, file_src, backup_log, now,
                   annotations, attempt, max_retries, existing_annotations, pending,
                   fd, copy_src, ret, calls, new_count>>

\* acquire's False result ignored: the with block is entered without the lock
AcquireTimeoutEnters(p) ==
    /\ pc[p] = "acquire"
    /\ lock_file # 0
    /\ pc' = [pc EXCEPT ![p] = "backup"]
    /\ UNCHANGED <<shared, now, annotations, locals, fd, ret, calls, new_count, call>>

\* FileLock.acquire polls a present sentinel until the timeout: acquire
\* returns False, __enter__ raises TimeoutError, save's handler runs
AcquireTimeout(p) ==
    /\ pc[p] = "acquire"
    /\ lock_file # 0
    /\ AttemptEnds(p, "TimeoutError")
    /\ UNCHANGED <<shared, now, annotations, fd, copy_src, calls, new_count, call>>

\* the slice taken from the wrong end: the KeepBackups smallest names stay
PruneNewest(b) ==
    IF Cardinality(DOMAIN b) > KeepBackups
    THEN [t \in {n \in DOMAIN b : Cardinality({m \in DOMAIN b : m < n}) < KeepBackups} |-> b[t]]
    ELSE b

\* sorted(glob)[:-10] are unlinked: the KeepBackups greatest names stay
Prune(b) ==
    IF Cardinality(DOMAIN b) > KeepBackups
    THEN [t \in {n \in DOMAIN b : Cardinality({m \in DOMAIN b : m > n}) < KeepBackups} |-> b[t]]
    ELSE b

\* _create_backup up to the open of copy2's destination: the source is open
\* for reading, expiry_dates_<now>.json is created or truncated
_create_backup(p) ==
    /\ pc[p] = "backup"
    /\ IF Exists(annotations_file)
       THEN /\ backups' = Put(backups, now, EmptyFile)
            /\ backup_log' = backup_log \cup {now}
            /\ copy_src' = [copy_src EXCEPT ![p] = [name |-> now, file |-> annotations_file]]
            /\ call' = [call EXCEPT ![p].wrote = @ \cup {"backup"}]
            /\ pc' = [pc EXCEPT ![p] = "backup_copy"]
       ELSE /\ pc' = [pc EXCEPT ![p] = "read"]
            /\ UNCHANGED <<backups, backup_log, copy_src, call>>
    /\ UNCHANGED <<lock_file, annotations_file, temp_file, file_src, now, annotations,
                   attempt, max_retries, lock_acquired, existing_annotations, pending,
                   fd, ret, calls, new_count>>

\* copy2 writes the bytes and closes; then all but the newest backups go
BackupCopy(p) ==
    /\ pc[p] = "backup_copy"
    /\ backups' = Prune(IF copy_src[p].name \in DOMAIN backups
                        THEN Put(backups, copy_src[p].name, copy_src[p].file)
                        ELSE backups)
    /\ copy_src' = [copy_src EXCEPT ![p] = NoCopy]
    /\ pc' = [pc EXCEPT ![p] = "read"]
    /\ UNCHANGED <<lock_file, annotations_file, temp_file, file_src, backup_log, now,
                   annotations, attempt, max_retries, lock_acquired, existing_annotations,
                   pending, fd, ret, calls, new_count, call>>

\* the file written from memory alone, without the re-read entries
MergedOverwrite(file, anns) == [c \in DOMAIN anns |-> to_dict(anns[c])]

\* lines 149-162: re-read the file (a parse error is caught and leaves {}),
\* then overwrite with the in-memory entries
Merged(file, anns) ==
    Update(IF Parseable(file) THEN json_load(file.data) ELSE EmptyDict,
           [c \in DOMAIN anns |-> to_dict(anns[c])])

\* a document that is no object has no items(): AttributeError, which only
\* the handler of line 187 catches
ReadAndMerge(p) ==
    /\ pc[p] = "read"
    /\ IF annotations_file.kind = "array"
       THEN /\ pending' = [pending EXCEPT ![p] = "Exception"]
            /\ pc' = [pc EXCEPT ![p] = "release"]
            /\ UNCHANGED existing_annotations
       ELSE /\ existing_annotations' = [existing_annotations EXCEPT ![p] = Merged(annotations_file, annotations[p])]
            /\ pc' = [pc EXCEPT ![p] = "open_temp"]
            /\ UNCHANGED pending
    /\ UNCHANGED <<shared, now, annotations, attempt, max_retries, lock_acquired,
                   fd, copy_src, ret, calls, new_count, call>>

\* open(temp_file, 'w'): creates the file or truncates the inode at that path
OpenTemp(p) ==
    /\ pc[p] = "open_temp"
    /\ temp_file' = EmptyFile
    /\ fd' = [fd EXCEPT ![p] = "temp"]
    /\ call' = [call EXCEPT ![p].wrote = @ \cup {"temp"}]
    /\ pc' = [pc EXCEPT ![p] = "dump"]
    /\ UNCHANGED <<lock_file, annotations_file, backups, file_src, backup_log, now,
                   annotations, locals, ret, calls, new_count>>

\* what a writer that starts at offset 0 leaves in an inode holding `file`:
\* its own document, or an overlay with what another writer put there
Written(file, text) ==
    IF file.kind = "empty" THEN {JsonFile(text)} ELSE {JsonFile(text), PartialFile}

\* json.dump into the open inode, wherever a rename has moved it, and close
Dump(p) ==
    /\ pc[p] = "dump"
    /\ \E f \in Written(IF fd[p] = "target" THEN annotations_file ELSE temp_file,
                        json_dump(existing_annotations[p])) :
          /\ temp_file' = IF fd[p] = "temp" THEN f ELSE temp_file
          /\ annotations_file' = IF fd[p] = "target" THEN f ELSE annotations_file
    /\ file_src' = IF fd[p] = "target" THEN NoSrc ELSE file_src
    /\ call' = IF fd[p] = "target" THEN [call EXCEPT ![p].wrote = @ \cup {"file"}] ELSE call
    /\ fd' = [fd EXCEPT ![p] = "none"]
    /\ pc' = [pc EXCEPT ![p] = "replace"]
    /\ UNCHANGED <<lock_file, backups, backup_log, now, annotations, locals, ret, calls, new_count>>

\* temp_file.replace(annotations_file): rename(2); the with block is then
\* left by return, or by FileNotFoundError when the path is gone
Replace(p) ==
    /\ pc[p] = "replace"
    /\ IF Exists(temp_file)
       THEN /\ annotations_file' = temp_file
            /\ temp_file' = NoFile
            /\ fd' = [q \in Procs |-> IF fd[q] = "temp" THEN "target"
                                      ELSE IF fd[q] = "target" THEN "orphan" ELSE fd[q]]
            /\ file_src' = [by |-> p, fresh |-> ~Exists(annotations_file),
                            annotations |-> IF Exists(annotations_file)
                                            THEN EmptyDict ELSE annotations[p]]
            /\ call' = [call EXCEPT ![p].wrote = @ \cup {"file"}]
            /\ pending' = [pending EXCEPT ![p] = "return"]
       ELSE /\ pending' = [pending EXCEPT ![p] = "Exception"]
            /\ UNCHANGED <<annotations_file, temp_file, fd, file_src, call>>
    /\ pc' = [pc EXCEPT ![p] = "release"]
    /\ UNCHANGED <<lock_file, backups, backup_log, now, annotations, attempt, max_retries,
                   lock_acquired, existing_annotations, copy_src, ret, calls, new_count>>

\* an I/O error (OSError) raised by the copy, the open, the write or the rename
IOError(p) ==
    /\ pc[p] \in {"backup", "backup_copy", "open_temp", "dump", "replace"}
    /\ pending' = [pending EXCEPT ![p] = "Exception"]
    /\ fd' = [fd EXCEPT ![p] = "none"]
    /\ copy_src' = [copy_src EXCEPT ![p] = NoCopy]
    /\ pc' = [pc EXCEPT ![p] = "release"]
    /\ UNCHANGED <<shared, now, annotations, attempt, max_retries, lock_acquired,
                   existing_annotations, ret, calls, new_count, call>>

\* release only on the normal exit of the block, not when it raised
ReleaseCheckOnReturn(p) ==
    /\ pc[p] = "release"
    /\ IF lock_acquired[p] /\ lock_file # 0 /\ pending[p] = "return"
       THEN /\ pc' = [pc EXCEPT ![p] = "unlink"]
            /\ UNCHANGED <<attempt, max_retries, lock_acquired, pending, ret, existing_annotations>>
       ELSE AttemptEnds(p, pending[p])
    /\ UNCHANGED <<shared, now, annotations, fd, copy_src, calls, new_count, call>>

\* FileLock.__exit__ -> release: the test of line 39
ReleaseCheck(p) ==
    /\ pc[p] = "release"
    /\ IF lock_acquired[p] /\ lock_file # 0
       THEN /\ pc' = [pc EXCEPT ![p] = "unlink"]
            /\ UNCHANGED <<attempt, max_retries, lock_acquired, pending, ret, existing_annotations>>
       ELSE AttemptEnds(p, pending[p])
    /\ UNCHANGED <<shared, now, annotations, fd, copy_src, calls, new_count, call>>

\* FileLock.release: lock_file.unlink(); FileNotFoundError is swallowed
ReleaseUnlink(p) ==
    /\ pc[p] = "unlink"
    /\ lock_file' = 0
    /\ AttemptEnds(p, pending[p])
    /\ UNCHANGED <<annotations_file, temp_file, backups, file_src, backup_log, now,
                   annotations, fd, copy_src, calls, new_count, call>>

\* the process is killed (or the machine stops) in the middle of an operation
Kill(p) ==
    /\ pc[p] \notin {"idle", "stopped"}
    /\ pc' = [pc EXCEPT ![p] = "stopped"]
    /\ fd' = [fd EXCEPT ![p] = "none"]
    /\ annotations' = [annotations EXCEPT ![p] = EmptyDict]
    /\ attempt' = [attempt EXCEPT ![p] = 0]
    /\ max_retries' = [max_retries EXCEPT ![p] = 0]
    /\ lock_acquired' = [lock_acquired EXCEPT ![p] = FALSE]
    /\ existing_annotations' = [existing_annotations EXCEPT ![p] = EmptyDict]
    /\ pending' = [pending EXCEPT ![p] = "none"]
    /\ copy_src' = [copy_src EXCEPT ![p] = NoCopy]
    /\ ret' = [ret EXCEPT ![p] = NoRet]
    /\ call' = [call EXCEPT ![p] = NoCall]
    /\ UNCHANGED <<shared, now, calls, new_count>>

\* the wall clock passes to the next second
Tick(limit) ==
    /\ now < limit
    /\ now' = now + 1
    /\ UNCHANGED <<shared, pc, annotations, locals, fd, ret, calls, new_count, call>>

(***************************************************************************)
(* _load_existing and restore_from_backup.                                 *)
(***************************************************************************)
\* an entry that is a JSON number and no object
NumberEntry == [json_number |-> 7]

\* the exception from_dict raises for an entry: indexing a number, a missing
\* key, a status that is no member's value
EntryException(d) ==
    IF "json_number" \in DOMAIN d THEN "TypeError"
    ELSE IF ~(RequiredByFromDict \subseteq DOMAIN d) THEN "KeyError"
    ELSE IF FromDictRaises(d) THEN "ValueError"
    ELSE "none"

\* the entries of a document that from_dict accepts
GoodEntries(file) == {c \in DOMAIN file.data : ~FromDictRaises(json_load(file.data)[c])}

\* the exception _load_existing lets through for this file content
LoadException(file) ==
    IF ~Exists(file) THEN "none"
    ELSE IF file.kind = "array" THEN "AttributeError"
    ELSE IF ~Parseable(file) THEN "JSONDecodeError"
    ELSE IF GoodEntries(file) # DOMAIN file.data
         THEN EntryException(json_load(file.data)[CHOOSE c \in DOMAIN file.data : c \notin GoodEntries(file)])
    ELSE "none"

\* self.annotations after _load_existing: cleared, then filled from the file
Loaded(file) ==
    IF Exists(file) /\ LoadException(file) = "none"
    THEN [c \in DOMAIN file.data |-> from_dict(c, json_load(file.data)[c])]
    ELSE EmptyDict

\* self.annotations when _load_existing is left: on an exception raised by
\* from_dict, the entries that came before the offending one in the file
LoadedOutcomes(file) ==
    IF LoadException(file) = "none" THEN {Loaded(file)}
    ELSE {[c \in S |-> from_dict(c, json_load(file.data)[c])] : S \in SUBSET GoodEntries(file)}

\* _load_existing without the clear(): what is loaded is laid over the
\* entries already in memory
_load_existing_no_clear(p) ==
    /\ pc[p] = "idle"
    /\ \E a \in LoadedOutcomes(annotations_file) : annotations' = [annotations EXCEPT ![p] = Update(@, a)]
    /\ ret' = [ret EXCEPT ![p] = [op |-> "load",
                                  value |-> IF LoadException(annotations_file) = "none"
                                            THEN None ELSE LoadException(annotations_file),
                                  via |-> "none"]]
    /\ call' = [call EXCEPT ![p] = NoCall]
    /\ UNCHANGED <<shared, now, pc, locals, fd, calls, new_count>>

_load_existing(p) ==
    /\ pc[p] = "idle"
    /\ \E a \in LoadedOutcomes(annotations_file) : annotations' = [annotations EXCEPT ![p] = a]
    /\ ret' = [ret EXCEPT ![p] = [op |-> "load",
                                  value |-> IF LoadException(annotations_file) = "none"
                                            THEN None ELSE LoadException(annotations_file),
                                  via |-> "none"]]
    /\ call' = [call EXCEPT ![p] = NoCall]
    /\ UNCHANGED <<shared, now, pc, locals, fd, calls, new_count>>

\* sorted(glob, reverse=True)[0]
LatestName(b) == CHOOSE n \in DOMAIN b : \A m \in DOMAIN b : m <= n

\* restore_from_backup that reloads before it looks for a backup: without a
\* backup the collection is replaced by what the live file gives
RestoreBeginReloads(p) ==
    /\ pc[p] = "idle"
    /\ call' = [call EXCEPT ![p] = NoCall]
    /\ DOMAIN backups = {}
    /\ annotations' = [annotations EXCEPT ![p] = Loaded(annotations_file)]
    /\ ret' = [ret EXCEPT ![p] = [op |-> "restore", value |-> "False", via |-> "none"]]
    /\ UNCHANGED <<shared, now, pc, locals, fd, calls, new_count>>

\* restore_from_backup up to the open of copy2's destination, which truncates
\* the annotation file in place; False when there is no backup
RestoreBegin(p) ==
    /\ pc[p] = "idle"
    /\ call' = [call EXCEPT ![p] = NoCall]
    /\ IF DOMAIN backups = {}
       THEN /\ ret' = [ret EXCEPT ![p] = [op |-> "restore", value |-> "False", via |-> "none"]]
            /\ UNCHANGED <<annotations_file, file_src, copy_src, fd, pc>>
       ELSE /\ copy_src' = [copy_src EXCEPT ![p] = [name |-> LatestName(backups), file |-> backups[LatestName(backups)]]]
            /\ annotations_file' = EmptyFile
            /\ file_src' = NoSrc
            /\ fd' = [fd EXCEPT ![p] = "target"]
            /\ pc' = [pc EXCEPT ![p] = "restore_copy"]
            /\ ret' = [ret EXCEPT ![p] = NoRet]
    /\ UNCHANGED <<lock_file, temp_file, backups, backup_log, now, annotations, attempt,
                   max_retries, lock_acquired, existing_annotations, pending, calls, new_count>>

\* copy2 writes the backup's bytes into the inode it opened, and closes
RestoreCopy(p) ==
    /\ pc[p] = "restore_copy"
    /\ annotations_file' = IF fd[p] = "target" THEN copy_src[p].file ELSE annotations_file
    /\ fd' = [fd EXCEPT ![p] = "none"]
    /\ copy_src' = [copy_src EXCEPT ![p] = NoCopy]
    /\ pc' = [pc EXCEPT ![p] = "restore_load"]
    /\ UNCHANGED <<lock_file, temp_file, backups, file_src, backup_log, now, annotations,
                   attempt, max_retries, lock_acquired, existing_annotations, pending,
                   ret, calls, new_count, call>>

\* self._load_existing(); return True
RestoreLoad(p) ==
    /\ pc[p] = "restore_load"
    /\ \E a \in LoadedOutcomes(annotations_file) : annotations' = [annotations EXCEPT ![p] = a]
    /\ ret' = [ret EXCEPT ![p] = [op |-> "restore",
                                  value |-> IF LoadException(annotations_file) = "none"
                                            THEN "True" ELSE LoadException(annotations_file),
                                  via |-> "none"]]
    /\ pc' = [pc EXCEPT ![p] = "idle"]
    /\ UNCHANGED <<shared, now, locals, fd, calls, new_count, call>>

(***************************************************************************)
(* validate_json_integrity, get_annotation_count and is_annotated: each    *)
(* opens the annotation file, reads it whole and closes it.                *)
(***************************************************************************)
\* the fields validate_json_integrity looks for, with status left out
RequiredWithoutStatus == {"image", "subset", "class_name"}

\* required_fields of validate_json_integrity
RequiredByValidate == {"image", "subset", "class_name", "status"}

\* all(field in ann_data for field in required_fields): `in` on a number
\* raises TypeError, which the handler of line 213 turns into False
EntryPasses(d) == "json_number" \notin DOMAIN d /\ RequiredByValidate \subseteq DOMAIN d

\* what validate_json_integrity returns for this file content
ValidateResult(file) ==
    IF ~Exists(file) THEN "True"
    ELSE IF file.kind \in {"empty", "partial"} THEN "False"
    ELSE IF file.kind = "array" THEN "False"
    ELSE IF \A c \in DOMAIN file.data : EntryPasses(file.data[c]) THEN "True"
    ELSE "False"

validate_json_integrity(p) ==
    /\ pc[p] = "idle"
    /\ ret' = [ret EXCEPT ![p] = [op |-> "validate", value |-> ValidateResult(annotations_file), via |-> "none"]]
    /\ call' = [call EXCEPT ![p] = NoCall]
    /\ UNCHANGED <<shared, now, pc, annotations, locals, fd, calls, new_count>>

\* the count taken from the store's own collection and not from the file
CountOfMemory(file, anns) == Cardinality(DOMAIN anns)

\* what get_annotation_count returns: len(data) of the parsed file (the
\* document [] has length 0), 0 when the file is absent or does not parse
CountOfFile(file, anns) == IF Parseable(file) THEN Cardinality(DOMAIN file.data) ELSE 0

get_annotation_count(p) ==
    /\ pc[p] = "idle"
    /\ ret' = [ret EXCEPT ![p] = [op |-> "count", value |-> CountOfFile(annotations_file, annotations[p]), via |-> "none"]]
    /\ call' = [call EXCEPT ![p] = NoCall]
    /\ UNCHANGED <<shared, now, pc, annotations, locals, fd, calls, new_count>>

\* is_annotated: the file is loaded only when the collection is empty; an
\* exception of that load leaves is_annotated
is_annotated(p, crop_id) ==
    /\ pc[p] = "idle"
    /\ IF annotations[p] = EmptyDict /\ Exists(annotations_file)
       THEN \E a \in LoadedOutcomes(annotations_file) :
               /\ annotations' = [annotations EXCEPT ![p] = a]
               /\ ret' = [ret EXCEPT ![p] =
                             [op |-> "is_annotated",
                              value |-> IF LoadException(annotations_file) # "none"
                                        THEN LoadException(annotations_file)
                                        ELSE IF crop_id \in DOMAIN a THEN "True" ELSE "False",
                              via |-> "none"]]
       ELSE /\ ret' = [ret EXCEPT ![p] =
                          [op |-> "is_annotated",
                           value |-> IF crop_id \in DOMAIN annotations[p] THEN "True" ELSE "False",
                           via |-> "none"]]
            /\ UNCHANGED annotations
    /\ call' = [call EXCEPT ![p] = NoCall]
    /\ UNCHANGED <<shared, now, pc, locals, fd, calls, new_count>>

(***************************************************************************)
(* Spec: the operators' processes run save() concurrently.                 *)
(***************************************************************************)
Next ==
    \/ \E p \in Procs, c \in CropIds, d \in DateInputs : add_annotation(p, c, d, MaxCalls) /\ UNCHANGED view
    \/ \E p \in Procs, mr \in 1..MaxRetries : save(p, mr, MaxCalls) /\ UNCHANGED view
    \/ \E p \in Procs : AcquireCheck(p) /\ UNCHANGED view
    \/ \E p \in Procs : AcquireTouch(p) /\ UNCHANGED view
    \/ \E p \in Procs : AcquireTimeout(p) /\ UNCHANGED view
    \/ \E p \in Procs : _create_backup(p) /\ UNCHANGED view
    \/ \E p \in Procs : BackupCopy(p) /\ UNCHANGED view
    \/ \E p \in Procs : ReadAndMerge(p) /\ UNCHANGED view
    \/ \E p \in Procs : OpenTemp(p) /\ UNCHANGED view
    \/ \E p \in Procs : Dump(p) /\ UNCHANGED view
    \/ \E p \in Procs : Replace(p) /\ UNCHANGED view
    \/ \E p \in Procs : ReleaseCheck(p) /\ UNCHANGED view
    \/ \E p \in Procs : ReleaseUnlink(p) /\ UNCHANGED view
    \/ \E p \in Procs : IOError(p) /\ UNCHANGED view
    \/ \E p \in Procs : Kill(p) /\ UNCHANGED view

Spec == Init /\ [][Next]_vars

(***************************************************************************)
(* SpecFair: Spec with every running process going on with the save() it   *)
(* is in: the interpreter keeps executing, no file operation blocks, and   *)
(* the poll loop of acquire ends at its timeout.  Kills stay possible.     *)
(***************************************************************************)
SaveStep(p) ==
    \/ AcquireCheck(p)
    \/ AcquireTouch(p)
    \/ AcquireTimeout(p)
    \/ _create_backup(p)
    \/ BackupCopy(p)
    \/ ReadAndMerge(p)
    \/ OpenTemp(p)
    \/ Dump(p)
    \/ Replace(p)
    \/ ReleaseCheck(p)
    \/ ReleaseUnlink(p)

SpecFair == Init /\ [][Next]_vars /\ \A p \in Procs : WF_vars(SaveStep(p) /\ UNCHANGED view)

(***************************************************************************)
(* SpecSeq: the operators take turns; an operation starts only when no     *)
(* other process is in the middle of one (a killed process stays where it  *)
(* stopped).  No I/O errors.                                               *)
(***************************************************************************)
Turn(p) == \A q \in Procs \ {p} : pc[q] \in {"idle", "stopped"}

NextSeq ==
    \/ \E p \in Procs, c \in CropIds, d \in DateInputs : Turn(p) /\ add_annotation(p, c, d, MaxSeqCalls) /\ UNCHANGED view
    \/ \E p \in Procs, c \in CropIds : Turn(p) /\ add_illegible(p, c, MaxSeqCalls) /\ UNCHANGED view
    \/ \E p \in Procs, c \in CropIds : Turn(p) /\ remove_annotation(p, c, MaxSeqCalls) /\ UNCHANGED view
    \/ \E p \in Procs : Turn(p) /\ save(p, DefaultMaxRetries, MaxSeqCalls) /\ UNCHANGED view
    \/ \E p \in Procs : Turn(p) /\ AcquireCheck(p) /\ UNCHANGED view
    \/ \E p \in Procs : Turn(p) /\ AcquireTouch(p) /\ UNCHANGED view
    \/ \E p \in Procs : Turn(p) /\ AcquireTimeout(p) /\ UNCHANGED view
    \/ \E p \in Procs : Turn(p) /\ _create_backup(p) /\ UNCHANGED view
    \/ \E p \in Procs : Turn(p) /\ BackupCopy(p) /\ UNCHANGED view
    \/ \E p \in Procs : Turn(p) /\ ReadAndMerge(p) /\ UNCHANGED view
    \/ \E p \in Procs : Turn(p) /\ OpenTemp(p) /\ UNCHANGED view
    \/ \E p \in Procs : Turn(p) /\ Dump(p) /\ UNCHANGED view
    \/ \E p \in Procs : Turn(p) /\ Replace(p) /\ UNCHANGED view
    \/ \E p \in Procs : Turn(p) /\ ReleaseCheck(p) /\ UNCHANGED view
    \/ \E p \in Procs : Turn(p) /\ ReleaseUnlink(p) /\ UNCHANGED view
    \/ \E p \in Procs : Turn(p) /\ _load_existing(p) /\ UNCHANGED view
    \/ \E p \in Procs, c \in CropIds : Turn(p) /\ is_annotated(p, c) /\ UNCHANGED view
    \/ \E p \in Procs : Turn(p) /\ get_annotation_count(p) /\ UNCHANGED view
    \/ \E p \in Procs : Turn(p) /\ validate_json_integrity(p) /\ UNCHANGED view
    \/ \E p \in Procs : Turn(p) /\ RestoreBegin(p) /\ UNCHANGED view
    \/ \E p \in Procs : Turn(p) /\ RestoreCopy(p) /\ UNCHANGED view
    \/ \E p \in Procs : Turn(p) /\ RestoreLoad(p) /\ UNCHANGED view
    \/ \E p \in Procs : Kill(p) /\ UNCHANGED view

SpecSeq == Init /\ [][NextSeq]_vars

(***************************************************************************)
(* SpecRot: one store alone saves RotSaves times over an empty directory,  *)
(* the clock passing or not between the saves.                             *)
(***************************************************************************)
InitRot == InitWith({1})

NextRot ==
    \/ \E d \in DateInputs : add_annotation(1, AllCropIds[1], d, 1) /\ UNCHANGED view
    \/ save(1, DefaultMaxRetries, RotSaves) /\ UNCHANGED view
    \/ AcquireCheck(1) /\ UNCHANGED view
    \/ AcquireTouch(1) /\ UNCHANGED view
    \/ _create_backup(1) /\ UNCHANGED view
    \/ BackupCopy(1) /\ UNCHANGED view
    \/ ReadAndMerge(1) /\ UNCHANGED view
    \/ OpenTemp(1) /\ UNCHANGED view
    \/ Dump(1) /\ UNCHANGED view
    \/ Replace(1) /\ UNCHANGED view
    \/ ReleaseCheck(1) /\ UNCHANGED view
    \/ ReleaseUnlink(1) /\ UNCHANGED view
    \/ (pc[1] = "idle" /\ now <= calls[1] /\ Tick(RotSaves)) /\ UNCHANGED view

SpecRot == InitRot /\ [][NextRot]_vars

(***************************************************************************)
(* SpecStart: one operator's program, from its start-up sequence (load,    *)
(* validate, offer of a restore) into the annotation loop, over an         *)
(* annotation file that can be damaged or replaced from outside at any     *)
(* time; a program that ended can be started again.                        *)
(***************************************************************************)
\* the entry a save writes for a dated annotation of crop c
StoredEntry(c) ==
    LET info == CropInfo(c)
        date == CHOOSE d \in DateInputs : TRUE
    IN JsonDumpEntry(to_dict(Annotation(c, info.image, info.subset, info.box_index,
                                        info.box.class_id, info.box.class_name,
                                        _create_geometry(info.box), date.normalized,
                                        date.raw, "ANNOTATED", 0)))

\* documents found on disk: sound ones, truncated ones, and ones that parse
\* but are not what a save writes
SoundFiles ==
    {JsonFile(EmptyDict),
     JsonFile([c \in {AllCropIds[1]} |-> StoredEntry(c)]),
     JsonFile([c \in {AllCropIds[2]} |-> Del(Del(StoredEntry(c), "expiry_date"), "expiry_date_raw")])}

DamagedFiles ==
    {EmptyFile, PartialFile, ArrayFile,
     JsonFile([c \in {AllCropIds[1], AllCropIds[2]} |->
                  IF c = AllCropIds[1] THEN StoredEntry(c) ELSE Del(StoredEntry(c), "status")]),
     JsonFile([c \in {AllCropIds[1]} |-> Del(StoredEntry(c), "subset")]),
     JsonFile([c \in {AllCropIds[1]} |-> Del(StoredEntry(c), "timestamp")]),
     JsonFile([c \in {AllCropIds[1]} |-> [StoredEntry(c) EXCEPT !.status = "feito"]]),
     JsonFile([c \in {AllCropIds[1]} |-> NumberEntry])}

PersistedFiles == SoundFiles \cup DamagedFiles

InitStart ==
    /\ lock_file = 0
    /\ annotations_file = NoFile
    /\ temp_file = NoFile
    /\ backups = EmptyDict
    /\ now = 0
    /\ pc = [p \in Procs |-> IF p = 1 THEN "start_load" ELSE "stopped"]
    /\ annotations = [p \in Procs |-> EmptyDict]
    /\ attempt = [p \in Procs |-> 0]
    /\ max_retries = [p \in Procs |-> 0]
    /\ lock_acquired = [p \in Procs |-> FALSE]
    /\ existing_annotations = [p \in Procs |-> EmptyDict]
    /\ pending = [p \in Procs |-> "none"]
    /\ fd = [p \in Procs |-> "none"]
    /\ copy_src = [p \in Procs |-> NoCopy]
    /\ ret = [p \in Procs |-> NoRet]
    /\ calls = [p \in Procs |-> 0]
    /\ new_count = [p \in {} |-> 0]
    /\ call = [p \in Procs |-> NoCall]
    /\ file_src = NoSrc
    /\ backup_log = {}
    /\ ViewInit

\* the annotation file is damaged or put in place from outside the program,
\* between two operations of the store
External(f) ==
    /\ f # annotations_file
    /\ \A p \in Procs : pc[p] \in {"start_load", "start_validate", "prompt", "idle", "stopped", "crashed"}
    /\ annotations_file' = f
    /\ file_src' = NoSrc
    /\ UNCHANGED <<lock_file, temp_file, backups, backup_log, now, pc, annotations,
                   locals, fd, ret, calls, new_count, call>>

\* main.py line 177: manager._load_existing(); nothing catches what it raises
StartLoad(p) ==
    /\ pc[p] = "start_load"
    /\ IF LoadException(annotations_file) = "none"
       THEN /\ annotations' = [annotations EXCEPT ![p] = Loaded(annotations_file)]
            /\ ret' = [ret EXCEPT ![p] = [op |-> "load", value |-> None, via |-> "startup"]]
            /\ pc' = [pc EXCEPT ![p] = "start_validate"]
       ELSE /\ annotations' = [annotations EXCEPT ![p] = EmptyDict]
            /\ ret' = [ret EXCEPT ![p] = [op |-> "load", value |-> LoadException(annotations_file), via |-> "startup"]]
            /\ pc' = [pc EXCEPT ![p] = "crashed"]
    /\ call' = [call EXCEPT ![p] = NoCall]
    /\ UNCHANGED <<shared, now, locals, fd, calls, new_count>>

\* main.py lines 180-182: validate; an invalid file is reported and the
\* restore is offered, a valid one leads into the annotation loop
StartValidate(p) ==
    /\ pc[p] = "start_validate"
    /\ ret' = [ret EXCEPT ![p] = [op |-> "validate", value |-> ValidateResult(annotations_file), via |-> "startup"]]
    /\ pc' = [pc EXCEPT ![p] = IF ValidateResult(annotations_file) = "True" THEN "idle" ELSE "prompt"]
    /\ UNCHANGED <<shared, now, annotations, locals, fd, calls, new_count, call>>

\* the operator answers n: the loop starts over the invalid file
PromptNo(p) ==
    /\ pc[p] = "prompt"
    /\ pc' = [pc EXCEPT ![p] = "idle"]
    /\ ret' = [ret EXCEPT ![p] = NoRet]
    /\ UNCHANGED <<shared, now, annotations, locals, fd, calls, new_count, call>>

\* the operator answers s: restore_from_backup (taken whole); without a
\* backup the program returns, and what the reload raises ends it
PromptYes(p) ==
    /\ pc[p] = "prompt"
    /\ IF DOMAIN backups = {}
       THEN /\ ret' = [ret EXCEPT ![p] = [op |-> "restore", value |-> "False", via |-> "startup"]]
            /\ pc' = [pc EXCEPT ![p] = "stopped"]
            /\ annotations' = [annotations EXCEPT ![p] = EmptyDict]
            /\ UNCHANGED <<annotations_file, file_src>>
       ELSE /\ annotations_file' = backups[LatestName(backups)]
            /\ file_src' = NoSrc
            /\ IF LoadException(backups[LatestName(backups)]) = "none"
               THEN /\ annotations' = [annotations EXCEPT ![p] = Loaded(backups[LatestName(backups)])]
                    /\ ret' = [ret EXCEPT ![p] = [op |-> "restore", value |-> "True", via |-> "startup"]]
                    /\ pc' = [pc EXCEPT ![p] = "idle"]
               ELSE /\ annotations' = [annotations EXCEPT ![p] = EmptyDict]
                    /\ ret' = [ret EXCEPT ![p] = [op |-> "restore", value |-> LoadException(backups[LatestName(backups)]), via |-> "startup"]]
                    /\ pc' = [pc EXCEPT ![p] = "crashed"]
    /\ UNCHANGED <<lock_file, temp_file, backups, backup_log, now, locals, fd, calls, new_count, call>>

\* the operator runs the program again after it ended
Restart(p) ==
    /\ pc[p] \in {"stopped", "crashed"}
    /\ pc' = [pc EXCEPT ![p] = "start_load"]
    /\ annotations' = [annotations EXCEPT ![p] = EmptyDict]
    /\ ret' = [ret EXCEPT ![p] = NoRet]
    /\ UNCHANGED <<shared, now, locals, fd, calls, new_count, call>>

NextStart ==
    \/ StartLoad(1) /\ UNCHANGED view
    \/ StartValidate(1) /\ UNCHANGED view
    \/ PromptNo(1) /\ UNCHANGED view
    \/ PromptYes(1) /\ UNCHANGED view
    \/ Restart(1) /\ UNCHANGED view
    \/ \E f \in PersistedFiles : External(f) /\ UNCHANGED view
    \/ \E c \in CropIds, d \in DateInputs : add_annotation(1, c, d, MaxStartCalls) /\ UNCHANGED view
    \/ \E c \in CropIds : is_annotated(1, c) /\ UNCHANGED view
    \/ get_annotation_count(1) /\ UNCHANGED view
    \/ validate_json_integrity(1) /\ UNCHANGED view
    \/ save(1, DefaultMaxRetries, MaxStartCalls) /\ UNCHANGED view
    \/ AcquireCheck(1) /\ UNCHANGED view
    \/ AcquireTouch(1) /\ UNCHANGED view
    \/ AcquireTimeout(1) /\ UNCHANGED view
    \/ _create_backup(1) /\ UNCHANGED view
    \/ BackupCopy(1) /\ UNCHANGED view
    \/ ReadAndMerge(1) /\ UNCHANGED view
    \/ OpenTemp(1) /\ UNCHANGED view
    \/ Dump(1) /\ UNCHANGED view
    \/ Replace(1) /\ UNCHANGED view
    \/ ReleaseCheck(1) /\ UNCHANGED view
    \/ ReleaseUnlink(1) /\ UNCHANGED view
    \/ Kill(1) /\ UNCHANGED view

SpecStart == InitStart /\ [][NextStart]_vars

(***************************************************************************)
(* SpecCad: one store alone, after its start-up load of no file or of a    *)
(* file of NLoaded entries, takes the operator's commits and undos; its    *)
(* saves are those _auto_save starts.  The new annotations are counted.    *)
(***************************************************************************)
CadCrops == {AllCropIds[i] : i \in 1..NCadCrops}

LoadedAtStart == {NoFile, JsonFile([c \in {AllCropIds[i] : i \in 1..NLoaded} |-> StoredEntry(c)])}

InitCad ==
    /\ lock_file = 0
    /\ annotations_file \in LoadedAtStart
    /\ temp_file = NoFile
    /\ backups = EmptyDict
    /\ now = 0
    /\ pc = [p \in Procs |-> IF p = 1 THEN "idle" ELSE "stopped"]
    /\ annotations = [p \in Procs |-> IF p = 1 THEN Loaded(annotations_file) ELSE EmptyDict]
    /\ attempt = [p \in Procs |-> 0]
    /\ max_retries = [p \in Procs |-> 0]
    /\ lock_acquired = [p \in Procs |-> FALSE]
    /\ existing_annotations = [p \in Procs |-> EmptyDict]
    /\ pending = [p \in Procs |-> "none"]
    /\ fd = [p \in Procs |-> "none"]
    /\ copy_src = [p \in Procs |-> NoCopy]
    /\ ret = [p \in Procs |-> NoRet]
    /\ calls = [p \in Procs |-> 0]
    /\ new_count = [p \in {1} |-> 0]
    /\ call = [p \in Procs |-> NoCall]
    /\ file_src = NoSrc
    /\ backup_log = {}
    /\ ViewInit

NextCad ==
    \/ \E c \in CadCrops, d \in DateInputs : add_annotation(1, c, d, MaxCadCalls) /\ UNCHANGED view
    \/ add_illegible(1, AllCropIds[1], MaxCadCalls) /\ UNCHANGED view
    \/ \E c \in CadCrops : remove_annotation(1, c, MaxCadCalls) /\ UNCHANGED view
    \/ AcquireCheck(1) /\ UNCHANGED view
    \/ AcquireTouch(1) /\ UNCHANGED view
    \/ _create_backup(1) /\ UNCHANGED view
    \/ BackupCopy(1) /\ UNCHANGED view
    \/ ReadAndMerge(1) /\ UNCHANGED view
    \/ OpenTemp(1) /\ UNCHANGED view
    \/ Dump(1) /\ UNCHANGED view
    \/ Replace(1) /\ UNCHANGED view
    \/ ReleaseCheck(1) /\ UNCHANGED view
    \/ ReleaseUnlink(1) /\ UNCHANGED view

SpecCad == InitCad /\ [][NextCad]_vars

(***************************************************************************)
(* SpecLock: FileLock on its own.  Every process makes a FileLock over the *)
(* same sentinel, as save() does for each attempt, and uses it either as a *)
(* context manager (__enter__ ... __exit__) or by acquire() and release(); *)
(* release() may follow an acquire that failed.                            *)
(***************************************************************************)
LockModes == {"lk_enter", "lk_acquire"}

lock_rest == <<annotations_file, temp_file, backups, now, annotations, attempt, max_retries, existing_annotations, pending, fd, copy_src, new_count, call, file_src, backup_log>>

\* FileLock(lock_file, timeout): lock_acquired = False; then __enter__ or
\* acquire() is called
FileLock(p, how, limit) ==
    /\ pc[p] = "idle"
    /\ calls[p] < limit
    /\ how \in LockModes
    /\ calls' = [calls EXCEPT ![p] = @ + 1]
    /\ lock_acquired' = [lock_acquired EXCEPT ![p] = FALSE]
    /\ ret' = [ret EXCEPT ![p] = NoRet]
    /\ pc' = [pc EXCEPT ![p] = how]
    /\ UNCHANGED <<lock_file, lock_rest, view>>

\* acquire: `if not self.lock_file.exists()` finds no sentinel
LockPoll(p) ==
    /\ pc[p] \in LockModes
    /\ lock_file = 0
    /\ pc' = [pc EXCEPT ![p] = "lk_touch"]
    /\ UNCHANGED <<lock_file, lock_acquired, ret, calls, lock_rest, view>>

\* acquire: touch(), lock_acquired = True, return True
LockTouch(p) ==
    /\ pc[p] = "lk_touch"
    /\ lock_file' = IF lock_file = 0 THEN p ELSE lock_file
    /\ lock_acquired' = [lock_acquired EXCEPT ![p] = TRUE]
    /\ ret' = [ret EXCEPT ![p] = [op |-> "acquire", value |-> "True", via |-> "returned"]]
    /\ pc' = [pc EXCEPT ![p] = "lk_held"]
    /\ UNCHANGED <<calls, lock_rest, view>>

\* a failed acquire that marks the caller as the holder
TimedOutFlagSet(flag) == TRUE

\* the flag a failed acquire leaves: acquire does not assign it
TimedOutFlag(flag) == flag

\* acquire: every poll of the timeout finds the sentinel; acquire returns
\* False, and __enter__ turns that into TimeoutError
LockTimeout(p) ==
    /\ pc[p] \in LockModes
    /\ lock_file # 0
    /\ lock_acquired' = [lock_acquired EXCEPT ![p] = TimedOutFlag(@)]
    /\ ret' = [ret EXCEPT ![p] = IF pc[p] = "lk_enter"
                                 THEN [op |-> "__enter__", value |-> "TimeoutError", via |-> "raised"]
                                 ELSE [op |-> "acquire", value |-> "False", via |-> "returned"]]
    /\ pc' = [pc EXCEPT ![p] = "lk_failed"]
    /\ UNCHANGED <<lock_file, calls, lock_rest, view>>

\* the caller goes on without calling release (__exit__ does not run when
\* __enter__ raised)
LockGiveUp(p) ==
    /\ pc[p] = "lk_failed"
    /\ pc' = [pc EXCEPT ![p] = "idle"]
    /\ UNCHANGED <<lock_file, lock_acquired, ret, calls, lock_rest, view>>

\* release: `if self.lock_acquired and self.lock_file.exists()`
LockRelease(p) ==
    /\ pc[p] \in {"lk_held", "lk_failed"}
    /\ IF lock_acquired[p] /\ lock_file # 0
       THEN /\ pc' = [pc EXCEPT ![p] = "lk_unlink"]
            /\ UNCHANGED ret
       ELSE /\ pc' = [pc EXCEPT ![p] = "idle"]
            /\ ret' = [ret EXCEPT ![p] = [op |-> "release", value |-> None, via |-> IF pc[p] = "lk_failed" THEN "after_failure" ELSE "no_sentinel"]]
    /\ UNCHANGED <<lock_file, lock_acquired, calls, lock_rest, view>>

\* release: unlink(), lock_acquired = False; an unlink that raises (the
\* sentinel is gone) is swallowed and leaves the flag
LockUnlink(p) ==
    /\ pc[p] = "lk_unlink"
    /\ lock_file' = 0
    /\ lock_acquired' = [lock_acquired EXCEPT ![p] = IF lock_file = 0 THEN @ ELSE FALSE]
    /\ ret' = [ret EXCEPT ![p] = [op |-> "release", value |-> None, via |-> "unlinked"]]
    /\ pc' = [pc EXCEPT ![p] = "idle"]
    /\ UNCHANGED <<calls, lock_rest, view>>

NextLock ==
    \/ \E p \in Procs, how \in LockModes : FileLock(p, how, MaxLockCalls)
    \/ \E p \in Procs : LockPoll(p)
    \/ \E p \in Procs : LockTouch(p)
    \/ \E p \in Procs : LockTimeout(p)
    \/ \E p \in Procs : LockGiveUp(p)
    \/ \E p \in Procs : LockRelease(p)
    \/ \E p \in Procs : LockUnlink(p)

SpecLock == Init /\ [][NextLock]_vars

(***************************************************************************)
(* Framing a region: DisplayManager.get_display_size and                   *)
(* ImageProcessor.calculate_auto_zoom as functions.  A region is a YOLO    *)
(* label: a box (centre and size) or a polygon (x, y pairs), normalised to *)
(* the image.                                                              *)
(***************************************************************************)
\* get_display_size with the image size handed back unscaled
get_display_size_unscaled(img_width, img_height) == <<img_width, img_height>>

get_display_size(img_width, img_height) ==
    LET scale == IF img_width < min_width \/ img_height < min_height
                 THEN QMax(Q(min_width, img_width), Q(min_height, img_height))
                 ELSE QMin(QMin(Q(max_width, img_width), Q(max_height, img_height)), QInt(1))
    IN  <<Trunc(QMul(QInt(img_width), scale)), Trunc(QMul(QInt(img_height), scale))>>

\* BoundingBox.to_absolute
to_absolute(box, img_width, img_height) ==
    LET x_center_abs == QMul(box.x_center, QInt(img_width))
        y_center_abs == QMul(box.y_center, QInt(img_height))
        width_abs == QMul(box.width, QInt(img_width))
        height_abs == QMul(box.height, QInt(img_height))
        half_w == QDiv(width_abs, QInt(2))
        half_h == QDiv(height_abs, QInt(2))
    IN  <<Trunc(QSub(x_center_abs, half_w)), Trunc(QSub(y_center_abs, half_h)), Trunc(QAdd(x_center_abs, half_w)), Trunc(QAdd(y_center_abs, half_h))>>

\* Polygon.to_points, then the extremes of Polygon.get_bounding_box
PolygonXs(coords, img_width) == {Trunc(QMul(coords[i], QInt(img_width))) : i \in {j \in 1..Len(coords) : j % 2 = 1}}
PolygonYs(coords, img_height) == {Trunc(QMul(coords[i], QInt(img_height))) : i \in {j \in 1..Len(coords) : j % 2 = 0}}
SetMin(S) == CHOOSE m \in S : \A x \in S : m <= x
SetMax(S) == CHOOSE m \in S : \A x \in S : x <= m

get_bounding_box(coords, img_width, img_height) ==
    <<SetMin(PolygonXs(coords, img_width)), SetMin(PolygonYs(coords, img_height)), SetMax(PolygonXs(coords, img_width)), SetMax(PolygonYs(coords, img_height))>>

\* lines 186-187 left out: the pan is returned as computed
ClampPanNot(pan, max_pan) == pan

\* max(0, min(pan, max_pan))
ClampPan(pan, max_pan) == Max(0, Min(pan, max_pan))

calculate_auto_zoom(box, img_width, img_height, display_w, display_h, window_w, window_h, target_coverage, min_zoom, maximum) ==
    LET abs == IF box.type = "polygon"
               THEN get_bounding_box(box.coords, img_width, img_height)
               ELSE to_absolute(box, img_width, img_height)
        bbox_w == QMax(QInt(1), QInt(abs[3] - abs[1]))
        bbox_h == QMax(QInt(1), QInt(abs[4] - abs[2]))
        bbox_cx == Q(abs[1] + abs[3], 2)
        bbox_cy == Q(abs[2] + abs[4], 2)
        scale == IF img_width > 0 THEN Q(display_w, img_width) ELSE QInt(1)
        scaled_bbox_w == QMul(bbox_w, scale)
        scaled_bbox_h == QMul(bbox_h, scale)
        zoom_needed_w == QDiv(QMul(QInt(display_w), target_coverage), scaled_bbox_w)
        zoom_needed_h == QDiv(QMul(QInt(display_h), target_coverage), scaled_bbox_h)
        auto_zoom_display == QMin(zoom_needed_w, zoom_needed_h)
        zoom_for_display == QMax(min_zoom, QMin(maximum, QMul(auto_zoom_display, scale)))
        zoomed_center_x == QMul(bbox_cx, zoom_for_display)
        zoomed_center_y == QMul(bbox_cy, zoom_for_display)
        pan_x == Round(QSub(zoomed_center_x, Q(window_w, 2)))
        pan_y == Round(QSub(zoomed_center_y, Q(window_h, 2)))
        zoomed_img_w == Max(1, Round(QMul(QInt(img_width), zoom_for_display)))
        zoomed_img_h == Max(1, Round(QMul(QInt(img_height), zoom_for_display)))
        max_pan_x == Max(0, zoomed_img_w - window_w)
        max_pan_y == Max(0, zoomed_img_h - window_h)
    IN  [zoom |-> zoom_for_display, pan_x |-> ClampPan(pan_x, max_pan_x), pan_y |-> ClampPan(pan_y, max_pan_y)]

\* the divisors of lines 159-160, scaled_bbox_w and scaled_bbox_h: a float
\* division by 0.0 raises ZeroDivisionError
AutoZoomDivisors(box, img_width, img_height, display_w) ==
    LET abs == IF box.type = "polygon"
               THEN get_bounding_box(box.coords, img_width, img_height)
               ELSE to_absolute(box, img_width, img_height)
        bbox_w == QMax(QInt(1), QInt(abs[3] - abs[1]))
        bbox_h == QMax(QInt(1), QInt(abs[4] - abs[2]))
        scale == IF img_width > 0 THEN Q(display_w, img_width) ELSE QInt(1)
    IN  <<QMul(bbox_w, scale), QMul(bbox_h, scale)>>

DividesByZero(divisors) == \E i \in 1..Len(divisors) : divisors[i].n = 0

\* min_zoom as run_annotation_loop passes it
auto_min_zoom == Q(1, 10)

Bbox(xc, yc, w, h) == [type |-> "bbox", x_center |-> Q(xc, 1000), y_center |-> Q(yc, 1000), width |-> Q(w, 1000), height |-> Q(h, 1000)]

FrameBoxes ==
    << Bbox(400, 400, 200, 200),
       Bbox(500, 500, 1, 1),
       [type |-> "polygon", coords |-> <<Q(1, 10), Q(1, 10), Q(9, 10), Q(3, 20), Q(1, 2), Q(4, 5)>>],
       Bbox(950, 50, 200, 100),
       Bbox(500, 500, 1000, 1000),
       Bbox(250, 750, 500, 10) >>

FrameImages == << <<1000, 1000>>, <<100, 1000>>, <<1920, 1080>>, <<400, 300>>, <<1, 1>>, <<3000, 500>>, <<640, 480>> >>

FrameDisplays == { <<800, 800>>, <<1200, 800>>, <<1, 1>> }

FrameWindows == { <<window_width, window_height>>, <<320, 200>>, <<2000, 2000>> }

\* the inputs are chosen; nothing has been computed
InitFrame ==
    /\ StoreInit({})
    /\ display = NewDisplay
    /\ render = NoRender
    /\ decision = NoDecision
    /\ shown = NoShown
    /\ \E b \in 1..NBoxes, i \in 1..NImages, d \in FrameDisplays, w \in FrameWindows :
           args = [f |-> "frame", box |-> FrameBoxes[b], img_width |-> FrameImages[i][1], img_height |-> FrameImages[i][2], display_w |-> d[1], display_h |-> d[2], window_w |-> w[1], window_h |-> w[2]]
    /\ result = NoResult

\* main.py:249; an image without columns or rows is below the minimum, and
\* lines 291-292 divide by its width and by its height
GetDisplaySize ==
    /\ result.f = "none"
    /\ IF DividesByZero(<<QInt(args.img_width), QInt(args.img_height)>>)
       THEN /\ result' = [f |-> "raised", by |-> "get_display_size", exception |-> "ZeroDivisionError"]
            /\ UNCHANGED args
       ELSE LET size == get_display_size(args.img_width, args.img_height)
            IN  /\ result' = [f |-> "get_display_size", display_w |-> size[1], display_h |-> size[2]]
                /\ args' = [args EXCEPT !.display_w = size[1], !.display_h = size[2]]
    /\ UNCHANGED <<store, display, render, decision, shown>>

\* main.py:251-256, on the display size just computed or on the one given
CalculateAutoZoom ==
    /\ result.f \in {"none", "get_display_size"}
    /\ IF DividesByZero(AutoZoomDivisors(args.box, args.img_width, args.img_height, args.display_w))
       THEN result' = [f |-> "raised", by |-> "calculate_auto_zoom", exception |-> "ZeroDivisionError"]
       ELSE LET r == calculate_auto_zoom(args.box, args.img_width, args.img_height, args.display_w, args.display_h, args.window_w, args.window_h, auto_zoom_coverage, auto_min_zoom, max_zoom)
            IN  result' = [f |-> "calculate_auto_zoom", zoom |-> r.zoom, pan_x |-> r.pan_x, pan_y |-> r.pan_y, sized |-> (result.f = "get_display_size")]
    /\ UNCHANGED <<store, display, render, decision, shown, args>>

NextFrame ==
    \/ GetDisplaySize
    \/ CalculateAutoZoom

SpecFrame == InitFrame /\ [][NextFrame]_vars

\* the edges of the domain: regions without width or height, images and
\* display sizes without columns or rows
EdgeBoxes == << Bbox(500, 500, 0, 0), Bbox(400, 400, 200, 200), Bbox(0, 0, 0, 300), Bbox(1000, 1000, 200, 0) >>

EdgeSizes == << <<0, 0>>, <<1000, 1000>>, <<0, 800>>, <<800, 0>>, <<1, 1>>, <<400, 300>> >>

InitEdge ==
    /\ StoreInit({})
    /\ display = NewDisplay
    /\ render = NoRender
    /\ decision = NoDecision
    /\ shown = NoShown
    /\ \E b \in 1..NEdgeBoxes, i \in 1..NEdgeSizes, d \in 1..NEdgeSizes :
           args = [f |-> "frame", box |-> EdgeBoxes[b], img_width |-> EdgeSizes[i][1], img_height |-> EdgeSizes[i][2], display_w |-> EdgeSizes[d][1], display_h |-> EdgeSizes[d][2], window_w |-> window_width, window_h |-> window_height]
    /\ result = NoResult

SpecEdge == InitEdge /\ [][NextFrame]_vars

(***************************************************************************)
(* Content detection: the chain of _detect_content_bbox_robust over what   *)
(* its four detectors find in an image (None, or a box x1, y1, x2, y2      *)
(* inside the image).  The detectors' image processing is not modelled:    *)
(* every combination of their results is an input.                         *)
(***************************************************************************)
Strategies == <<"threshold_15", "threshold_30", "edges", "variance">>

\* _is_valid_bbox with the tests of the area made strict at both ends
_is_valid_bbox_open(bbox, img_w, img_h) ==
    LET bbox_w == bbox[3] - bbox[1]
        bbox_h == bbox[4] - bbox[2]
        bbox_area == bbox_w * bbox_h
        image_area == img_w * img_h
    IN  IF ~QLess(QInt(bbox_area), QMul(QInt(image_area), Q(95, 100))) THEN FALSE
        ELSE IF ~QLess(QMul(QInt(image_area), Q(1, 100)), QInt(bbox_area)) THEN FALSE
        ELSE IF bbox_w < 50 \/ bbox_h < 50 THEN FALSE
        ELSE TRUE

_is_valid_bbox(bbox, img_w, img_h) ==
    LET bbox_w == bbox[3] - bbox[1]
        bbox_h == bbox[4] - bbox[2]
        bbox_area == bbox_w * bbox_h
        image_area == img_w * img_h
    IN  IF QLess(QMul(QInt(image_area), Q(95, 100)), QInt(bbox_area)) THEN FALSE
        ELSE IF QLess(QInt(bbox_area), QMul(QInt(image_area), Q(1, 100))) THEN FALSE
        ELSE IF bbox_w < 50 \/ bbox_h < 50 THEN FALSE
        ELSE TRUE

\* found[i] is what strategy i returns for the image
_detect_content_bbox_robust(found, w, h) ==
    IF found[1] # NoBox /\ _is_valid_bbox(found[1], w, h) THEN found[1]
    ELSE IF found[2] # NoBox /\ _is_valid_bbox(found[2], w, h) THEN found[2]
    ELSE IF found[3] # NoBox /\ _is_valid_bbox(found[3], w, h) THEN found[3]
    ELSE IF found[4] # NoBox /\ _is_valid_bbox(found[4], w, h) THEN found[4]
    ELSE NoBox

\* on a 1000 x 1000 image: nothing found; exactly 1% and exactly 95% of the
\* area; just over 95%; under 1% with both sides over 50; 49 wide; the
\* whole image; a box in the middle
Candidates ==
    << NoBox, <<0, 0, 100, 100>>, <<0, 0, 950, 1000>>, <<0, 0, 951, 1000>>, <<100, 100, 199, 200>>, <<10, 10, 59, 900>>, <<0, 0, 1000, 1000>>, <<200, 300, 700, 800>> >>

InitDetect ==
    /\ StoreInit({})
    /\ display = NewDisplay
    /\ render = NoRender
    /\ decision = NoDecision
    /\ shown = NoShown
    /\ \E found \in [DOMAIN Strategies -> {Candidates[i] : i \in 1..NCandidates}] :
           args = [f |-> "detect", w |-> 1000, h |-> 1000, found |-> found]
    /\ result = NoResult

Detect ==
    /\ result.f = "none"
    /\ result' = [f |-> "detect", bbox |-> _detect_content_bbox_robust(args.found, args.w, args.h)]
    /\ UNCHANGED <<store, display, render, decision, shown, args>>

NextDetect == Detect

SpecDetect == InitDetect /\ [][NextDetect]_vars

(***************************************************************************)
(* The display at work.  The decision thread (run_annotation_loop) starts  *)
(* the display, then for each box calls set_zoom_pan and update_image, and *)
(* at the end stop; the render thread runs _display_loop.  No lock guards  *)
(* the fields of the DisplayManager: the threads interleave between the    *)
(* reads and the writes of a field.  Within _handle_key only the zoom      *)
(* keys are split in two steps (the zoom, then the pan).                   *)
(***************************************************************************)
ViewImages ==
    << [w |-> 1000, h |-> 1000, bbox |-> <<200, 300, 700, 800>>],
       [w |-> 100, h |-> 50, bbox |-> NoBox],
       [w |-> 1, h |-> 1, bbox |-> NoBox] >>

ZoomPanArgs ==
    << [zoom |-> QInt(7), pan_x |-> 640, pan_y |-> 640],
       [zoom |-> QInt(0), pan_x |-> 5000, pan_y |-> -10],
       [zoom |-> QInt(-1), pan_x |-> -10, pan_y |-> 30],
       [zoom |-> Q(12, 5), pan_x |-> 640, pan_y |-> 640] >>

\* the keys _handle_key knows; the first NKeys of them are pressed
AllKeys == <<"q", "e", "r", "s", "w", "n", "d", "a", "b", "v", "c", "x", "m", "t">>
Keys == {AllKeys[i] : i \in 1..NKeys}
ZoomKeys == {"q", "e"}
PanKeys == {"w", "s", "a", "d"}
OtherKeys == {"r", "b", "v", "c", "x", "n", "m", "t"}

\* a write of a viewport field by the set_zoom_pan call in progress, or by
\* any other writer
StampOf(call_id) == [call |-> call_id, epoch |-> decision.calls]

\* start()
start ==
    /\ decision.pc = "init"
    /\ display' = [display EXCEPT !.stop_flag = FALSE, !.thread = "started"]
    /\ render' = [render EXCEPT !.pc = "test"]
    /\ decision' = [decision EXCEPT !.pc = "loop"]
    /\ UNCHANGED <<store, shown, args, result>>

\* set_zoom_pan, lines 270-274: the zoom is clamped and stored
set_zoom_pan(zoom, pan_x, pan_y, limit) ==
    /\ decision.pc = "loop"
    /\ decision.calls < limit
    /\ LET floored == QMax(MIN_ZOOM_FOR_SAFETY, zoom)
           capped == IF max_zoom.n # 0 THEN QMin(floored, max_zoom) ELSE floored
       IN  display' = [display EXCEPT !.zoom_level = capped]
    /\ decision' = [pc |-> "set_pan_x", zoom |-> zoom, pan_x |-> pan_x, pan_y |-> pan_y, calls |-> decision.calls + 1]
    /\ shown' = [shown EXCEPT !.zoom_level = [call |-> decision.calls + 1, epoch |-> decision.calls + 1]]
    /\ UNCHANGED <<store, render, args, result>>

\* line 275
SetPanX ==
    /\ decision.pc = "set_pan_x"
    /\ display' = [display EXCEPT !.pan_x = Max(0, decision.pan_x)]
    /\ shown' = [shown EXCEPT !.pan_x = StampOf(decision.calls)]
    /\ decision' = [decision EXCEPT !.pc = "set_pan_y"]
    /\ UNCHANGED <<store, render, args, result>>

\* line 276
SetPanY ==
    /\ decision.pc = "set_pan_y"
    /\ display' = [display EXCEPT !.pan_y = Max(0, decision.pan_y)]
    /\ shown' = [shown EXCEPT !.pan_y = StampOf(decision.calls)]
    /\ decision' = [decision EXCEPT !.pc = "set_reset"]
    /\ UNCHANGED <<store, render, args, result>>

\* lines 279-282
SetReset ==
    /\ decision.pc = "set_reset"
    /\ display' = [display EXCEPT !.brightness = 0, !.contrast = QInt(1), !.rotation = 0, !.should_update = TRUE]
    /\ decision' = [NoDecision EXCEPT !.pc = "loop", !.calls = decision.calls]
    /\ UNCHANGED <<store, render, shown, args, result>>

\* update_image(image, applyAutoCenter=False), as run_annotation_loop calls
\* it: the early return of line 71
update_image(image) ==
    /\ decision.pc = "loop"
    /\ display.current_image # image \/ ~display.should_update
    /\ display' = [display EXCEPT !.current_image = image, !.should_update = TRUE]
    /\ UNCHANGED <<store, render, decision, shown, args, result>>

\* stop(), line 54
stop ==
    /\ decision.pc = "loop"
    /\ display' = [display EXCEPT !.stop_flag = TRUE]
    /\ decision' = [decision EXCEPT !.pc = "join"]
    /\ UNCHANGED <<store, render, shown, args, result>>

\* stop(), lines 55-57: join returns when the thread has ended or after its
\* timeout
JoinEnds ==
    /\ decision.pc = "join"
    /\ decision' = [decision EXCEPT !.pc = "stopped"]
    /\ UNCHANGED <<store, display, render, shown, args, result>>

\* a loop that does not look at the stop flag
LoopTestBlind(flag) == FALSE

\* `while not self.stop_flag`
LoopTestSees(flag) == flag

LoopTest ==
    /\ render.pc = "test"
    /\ render' = [render EXCEPT !.pc = IF LoopTestSees(display.stop_flag) THEN "exited" ELSE "update", !.key = "none"]
    /\ UNCHANGED <<store, display, decision, shown, args, result>>

\* line 310
CheckUpdate ==
    /\ render.pc = "update"
    /\ render' = [render EXCEPT !.pc = IF display.should_update /\ display.current_image # NoImage THEN "rotate" ELSE "waitkey"]
    /\ UNCHANGED <<store, display, decision, shown, args, result>>

\* the size of what _apply_rotation returns: the image itself when the
\* rotation is 0, else the envelope of the rotated image, taken to be any
\* of a few sizes between the image's sides and their sum
RotatedSizes(image, rotation) ==
    IF rotation = 0
    THEN {<<image.w, image.h>>}
    ELSE {<<image.w, image.h>>, <<image.h, image.w>>, <<image.w + image.h, image.w + image.h>>}

\* _render, lines 321-322
Rotate ==
    /\ render.pc = "rotate"
    /\ \E size \in RotatedSizes(display.current_image, display.rotation) :
           render' = [render EXCEPT !.pc = "zoom_w", !.base = size]
    /\ UNCHANGED <<store, display, decision, shown, args, result>>

\* _apply_zoom_pan, line 358
ReadZoomW ==
    /\ render.pc = "zoom_w"
    /\ render' = [render EXCEPT !.pc = "zoom_h", !.zoom_w = display.zoom_level, !.by.zoom_w = shown.zoom_level]
    /\ UNCHANGED <<store, display, decision, shown, args, result>>

\* line 359
ReadZoomH ==
    /\ render.pc = "zoom_h"
    /\ render' = [render EXCEPT !.pc = "pan_x", !.zoom_h = display.zoom_level, !.by.zoom_h = shown.zoom_level]
    /\ UNCHANGED <<store, display, decision, shown, args, result>>

\* line 366
ReadPanX ==
    /\ render.pc = "pan_x"
    /\ render' = [render EXCEPT !.pc = "pan_y", !.pan_x = display.pan_x, !.by.pan_x = shown.pan_x]
    /\ UNCHANGED <<store, display, decision, shown, args, result>>

\* the size of the crop after copyMakeBorder left out
PadNot(crop, window) == crop

\* lines 377-387: a crop smaller than the window is padded up to it
Pad(crop, window) == crop + Max(0, window - crop)

\* _apply_zoom_pan on an image of w x h, with the zoom as read for the width
\* and for the height: the columns and rows of what it returns
_apply_zoom_pan(w, h, zoom_w, zoom_h, pan_x, pan_y) ==
    LET zw == Max(1, Trunc(QMul(QInt(w), zoom_w)))
        zh == Max(1, Trunc(QMul(QInt(h), zoom_h)))
        x1 == Max(0, Min(pan_x, Max(0, zw - window_width)))
        y1 == Max(0, Min(pan_y, Max(0, zh - window_height)))
        x2 == Min(zw, x1 + window_width)
        y2 == Min(zh, y1 + window_height)
        crop_w == x2 - x1
        crop_h == y2 - y1
    IN  IF crop_w # window_width \/ crop_h # window_height
        THEN [cols |-> Pad(crop_w, window_width), rows |-> Pad(crop_h, window_height), pad_right |-> Max(0, window_width - crop_w), pad_bottom |-> Max(0, window_height - crop_h)]
        ELSE [cols |-> crop_w, rows |-> crop_h, pad_right |-> 0, pad_bottom |-> 0]

\* a zoom written by a set_zoom_pan call is used with a pan that a
\* different call wrote, or that was written before that call began
TornPair(zoom_by, pan_by) ==
    /\ zoom_by.call > 0
    /\ pan_by.call # zoom_by.call
    /\ (pan_by.call > 0 \/ pan_by.epoch < zoom_by.call)

\* line 367 to the end of _apply_zoom_pan, and the rest of _render; the
\* locals of the call end with it
ShowFrame ==
    /\ render.pc = "pan_y"
    /\ LET crop == _apply_zoom_pan(render.base[1], render.base[2], render.zoom_w, render.zoom_h, render.pan_x, display.pan_y)
           torn == \E zoom_by \in {render.by.zoom_w, render.by.zoom_h}, pan_by \in {render.by.pan_x, shown.pan_y} : TornPair(zoom_by, pan_by)
       IN  shown' = [shown EXCEPT !.frames = 1,
                                  !.frame = [cols |-> crop.cols, rows |-> crop.rows, pad_right |-> crop.pad_right, pad_bottom |-> crop.pad_bottom, torn |-> torn]]
    /\ render' = [NoRender EXCEPT !.pc = "waitkey", !.keys = render.keys]
    /\ UNCHANGED <<store, display, decision, args, result>>

\* cv2.waitKey(50) returns 255: no key; the loop sleeps and goes round
NoKey ==
    /\ render.pc = "waitkey"
    /\ render' = [render EXCEPT !.pc = "test"]
    /\ UNCHANGED <<store, display, decision, shown, args, result>>

\* a zoom key that leaves the pan where it is
RecentredPanStill(pan, window, img, zoom, old_zoom) == pan

\* the pan of lines 463-477 (and 493-507), for one axis
RecentredPan(pan, window, img, zoom, old_zoom) ==
    LET zoom_ratio == QDiv(zoom, QMax(old_zoom, MIN_ZOOM_FOR_SAFETY))
        center == pan + window \div 2
        new_center == QMul(QInt(center), zoom_ratio)
        moved == Trunc(QSub(new_center, QInt(window \div 2)))
        max_pan == Max(0, Trunc(QSub(QMul(QInt(img), zoom), QInt(window))))
    IN  Max(0, Min(moved, max_pan))

\* line 455
ZoomedIn(zoom) == QMin(QAdd(zoom, zoom_step), max_zoom)

\* zoom out without the floor
ZoomedOutFree(zoom) == QSub(zoom, zoom_step)

\* line 485
ZoomedOut(zoom) == QMax(MIN_ZOOM_FOR_SAFETY, QSub(zoom, zoom_step))

\* _handle_key for q and e, lines 454-456 and 483-486: the zoom
KeyZoom(key, limit) ==
    /\ render.pc = "waitkey"
    /\ render.keys < limit
    /\ key \in ZoomKeys
    /\ display' = [display EXCEPT !.zoom_level = IF key = "q" THEN ZoomedIn(@) ELSE ZoomedOut(@)]
    /\ shown' = [shown EXCEPT !.zoom_level = StampOf(0)]
    /\ render' = [render EXCEPT !.pc = "key_pan", !.old_zoom = display.zoom_level, !.key = key, !.keys = @ + 1]
    /\ UNCHANGED <<store, decision, args, result>>

\* _handle_key for q and e, lines 458-479 and 488-509: the pan follows
KeyZoomPan ==
    /\ render.pc = "key_pan"
    /\ IF display.current_image # NoImage
       THEN /\ display' = [display EXCEPT !.pan_x = RecentredPan(display.pan_x, window_width, display.current_image.w, display.zoom_level, render.old_zoom),
                                          !.pan_y = RecentredPan(display.pan_y, window_height, display.current_image.h, display.zoom_level, render.old_zoom),
                                          !.should_update = TRUE]
            /\ shown' = [shown EXCEPT !.pan_x = StampOf(0), !.pan_y = StampOf(0)]
       ELSE /\ display' = [display EXCEPT !.should_update = TRUE]
            /\ UNCHANGED shown
    /\ render' = [render EXCEPT !.pc = "test", !.old_zoom = QInt(1)]
    /\ UNCHANGED <<store, decision, args, result>>

\* _handle_key for w, s, a, d, lines 558-570
KeyPan(key, limit) ==
    /\ render.pc = "waitkey"
    /\ render.keys < limit
    /\ key \in PanKeys
    /\ display' = [display EXCEPT !.pan_y = IF key = "w" THEN Max(0, @ - pan_step) ELSE IF key = "s" THEN @ + pan_step ELSE @,
                                  !.pan_x = IF key = "a" THEN Max(0, @ - pan_step) ELSE IF key = "d" THEN @ + pan_step ELSE @,
                                  !.should_update = TRUE]
    /\ shown' = [shown EXCEPT !.pan_y = IF key \in {"w", "s"} THEN StampOf(0) ELSE @,
                              !.pan_x = IF key \in {"a", "d"} THEN StampOf(0) ELSE @]
    /\ render' = [render EXCEPT !.pc = "test", !.key = key, !.keys = @ + 1]
    /\ UNCHANGED <<store, decision, args, result>>

\* a reset key that leaves the pan where it is
ResetPanKeeps(pan, window, img, lo, hi, zoom, image) == pan

\* the pan of the reset key for one axis, lines 513-552
ResetPan(pan, window, img, lo, hi, zoom, image) ==
    IF image = NoImage THEN pan
    ELSE IF image.bbox # NoBox
         THEN Min(Max(0, Trunc(QSub(QMul(Q(lo + hi, 2), zoom), QInt(window \div 2)))), Max(0, Trunc(QMul(QInt(img), zoom)) - window))
         ELSE Max(0, (Trunc(QMul(QInt(img), zoom)) - window) \div 2)

\* _handle_key for the other keys: r (lines 512-556), brightness, contrast
\* and rotation (573-603)
KeyOther(key, limit) ==
    /\ render.pc = "waitkey"
    /\ render.keys < limit
    /\ key \in OtherKeys
    /\ LET image == display.current_image
       IN  display' = [display EXCEPT
               !.pan_x = IF key = "r" THEN ResetPan(@, window_width, image.w, image.bbox[1], image.bbox[3], display.zoom_level, image) ELSE @,
               !.pan_y = IF key = "r" THEN ResetPan(@, window_height, image.h, image.bbox[2], image.bbox[4], display.zoom_level, image) ELSE @,
               !.brightness = IF key = "r" THEN 0
                              ELSE IF key = "b" THEN Min(@ + brightness_step, 100)
                              ELSE IF key = "v" THEN Max(@ - brightness_step, -100) ELSE @,
               !.contrast = IF key = "r" THEN QInt(1)
                            ELSE IF key = "c" THEN QMin(QAdd(@, contrast_step), QInt(3))
                            ELSE IF key = "x" THEN QMax(QSub(@, contrast_step), Q(1, 10)) ELSE @,
               !.rotation = IF key = "n" THEN (@ + rotation_step) % 360
                            ELSE IF key = "m" THEN (@ - rotation_step) % 360
                            ELSE IF key = "t" THEN 0 ELSE @,
               !.should_update = TRUE]
    /\ shown' = IF key = "r" /\ display.current_image # NoImage
                THEN [shown EXCEPT !.pan_x = StampOf(0), !.pan_y = StampOf(0)]
                ELSE shown
    /\ render' = [render EXCEPT !.pc = "test", !.key = key, !.keys = @ + 1]
    /\ UNCHANGED <<store, decision, args, result>>

InitView == StoreInit({}) /\ ViewInit

NextView ==
    \/ start
    \/ \E i \in 1..NZoomArgs : set_zoom_pan(ZoomPanArgs[i].zoom, ZoomPanArgs[i].pan_x, ZoomPanArgs[i].pan_y, MaxSetCalls)
    \/ SetPanX
    \/ SetPanY
    \/ SetReset
    \/ \E i \in 1..NViewImages : update_image(ViewImages[i])
    \/ stop
    \/ JoinEnds
    \/ LoopTest
    \/ CheckUpdate
    \/ Rotate
    \/ ReadZoomW
    \/ ReadZoomH
    \/ ReadPanX
    \/ ShowFrame
    \/ NoKey
    \/ \E key \in Keys \cap ZoomKeys : KeyZoom(key, MaxKeys)
    \/ KeyZoomPan
    \/ \E key \in Keys \cap PanKeys : KeyPan(key, MaxKeys)
    \/ \E key \in Keys \cap OtherKeys : KeyOther(key, MaxKeys)

SpecView == InitView /\ [][NextView]_vars

\* main.py calls set_zoom_pan and the user presses keys a bounded number of
\* times before stop(); the smaller bounds of the specification with fairness
NextStop ==
    \/ start
    \/ \E i \in 1..NZoomArgs : set_zoom_pan(ZoomPanArgs[i].zoom, ZoomPanArgs[i].pan_x, ZoomPanArgs[i].pan_y, MaxStopCalls)
    \/ SetPanX
    \/ SetPanY
    \/ SetReset
    \/ \E i \in 1..NViewImages : update_image(ViewImages[i])
    \/ stop
    \/ JoinEnds
    \/ LoopTest
    \/ CheckUpdate
    \/ Rotate
    \/ ReadZoomW
    \/ ReadZoomH
    \/ ReadPanX
    \/ ShowFrame
    \/ NoKey
    \/ \E key \in Keys \cap ZoomKeys : KeyZoom(key, MaxStopKeys)
    \/ KeyZoomPan
    \/ \E key \in Keys \cap PanKeys : KeyPan(key, MaxStopKeys)
    \/ \E key \in Keys \cap OtherKeys : KeyOther(key, MaxStopKeys)

\* where the thread of _display_loop stands while it runs
LoopPcs == {"test", "update", "rotate", "zoom_w", "zoom_h", "pan_x", "pan_y", "waitkey", "key_pan"}

\* the render thread is scheduled: it does not stand for ever before a step
\* of its loop. Every step of the loop is enabled whenever the thread stands
\* before it (waitKey returns after its 50 ms also when no key was pressed)
\* and moves the thread on, so this is the weak fairness of each step.
SpecViewFair == InitView /\ [][NextStop]_vars /\ \A at \in LoopPcs : []<>(render.pc # at)

\* A key is handled on its own: the viewport is any that set_zoom_pan and
\* earlier keys can leave behind (any zoom within the clamps, any pan of 0
\* or more, brightness, contrast and rotation within their ranges), with or
\* without an image, and the render thread is in waitKey.
KeyZooms == {QInt(1), MIN_ZOOM_FOR_SAFETY, max_zoom, Q(12, 5), Q(49, 10)}

KeyPans == {0, 50, 640, 5000}

InitKeys ==
    /\ StoreInit({})
    /\ \E zoom \in KeyZooms, x \in KeyPans, y \in KeyPans, b \in {0, 100}, c \in {QInt(1), QInt(3)}, r \in {0, 350}, i \in 0..NKeyImages :
           display = [NewDisplay EXCEPT !.zoom_level = zoom, !.pan_x = x, !.pan_y = y, !.brightness = b, !.contrast = c, !.rotation = r,
                                        !.current_image = IF i = 0 THEN NoImage ELSE ViewImages[i],
                                        !.should_update = TRUE, !.thread = "started"]
    /\ render = [NoRender EXCEPT !.pc = "waitkey"]
    /\ decision = [NoDecision EXCEPT !.pc = "loop"]
    /\ shown = NoShown
    /\ args = NoArgs
    /\ result = NoResult

NextKeys ==
    \/ \E key \in ZoomKeys : KeyZoom(key, MaxKeyPresses)
    \/ KeyZoomPan
    \/ \E key \in PanKeys : KeyPan(key, MaxKeyPresses)
    \/ \E key \in OtherKeys : KeyOther(key, MaxKeyPresses)

SpecKeys == InitKeys /\ [][NextKeys]_vars

\* One set_zoom_pan call and one key: the decision thread is about to call
\* set_zoom_pan with the arguments chosen, the render thread is in waitKey,
\* and the viewport is as it was before both (kept in args for comparison).
InitPair ==
    /\ StoreInit({})
    /\ \E zoom \in KeyZooms, x \in KeyPans, y \in KeyPans, b \in {0, 100}, i \in 1..NKeyImages :
           display = [NewDisplay EXCEPT !.zoom_level = zoom, !.pan_x = x, !.pan_y = y, !.brightness = b,
                                        !.current_image = ViewImages[i], !.should_update = TRUE, !.thread = "started"]
    /\ render = [NoRender EXCEPT !.pc = "waitkey"]
    /\ decision = [NoDecision EXCEPT !.pc = "loop"]
    /\ shown = NoShown
    /\ \E i \in 1..NZoomArgs :
           args = [f |-> "set_zoom_pan", before |-> display, zoom |-> ZoomPanArgs[i].zoom, pan_x |-> ZoomPanArgs[i].pan_x, pan_y |-> ZoomPanArgs[i].pan_y]
    /\ result = NoResult

NextPair ==
    \/ set_zoom_pan(args.zoom, args.pan_x, args.pan_y, MaxPairCalls)
    \/ SetPanX
    \/ SetPanY
    \/ SetReset
    \/ \E key \in ZoomKeys : KeyZoom(key, MaxPairKeys)
    \/ KeyZoomPan
    \/ \E key \in PanKeys : KeyPan(key, MaxPairKeys)
    \/ \E key \in OtherKeys : KeyOther(key, MaxPairKeys)

SpecPair == InitPair /\ [][NextPair]_vars

(***************************************************************************)
(* SpecUndo: one operator has committed the annotation of UndoCrop and     *)
(* goes on: saves, undoes that commit (back), annotates other crops, asks  *)
(* is_annotated.  UndoCrop is never committed again, so the collection     *)
(* lacks it only after remove_annotation.                                  *)
(***************************************************************************)
UndoCrop == AllCropIds[1]

\* the annotation add_annotation stored for crop c at time 0
Committed(c) ==
    LET info == CropInfo(c)
        date == CHOOSE d \in DateInputs : TRUE
    IN Annotation(c, info.image, info.subset, info.box_index,
                  info.box.class_id, info.box.class_name,
                  _create_geometry(info.box), date.normalized, date.raw,
                  "ANNOTATED", 0)

InitUndo ==
    /\ lock_file = 0
    /\ annotations_file = NoFile
    /\ temp_file = NoFile
    /\ backups = EmptyDict
    /\ now = 0
    /\ pc = [p \in Procs |-> IF p = 1 THEN "idle" ELSE "stopped"]
    /\ annotations = [p \in Procs |-> IF p = 1 THEN Put(EmptyDict, UndoCrop, Committed(UndoCrop)) ELSE EmptyDict]
    /\ attempt = [p \in Procs |-> 0]
    /\ max_retries = [p \in Procs |-> 0]
    /\ lock_acquired = [p \in Procs |-> FALSE]
    /\ existing_annotations = [p \in Procs |-> EmptyDict]
    /\ pending = [p \in Procs |-> "none"]
    /\ fd = [p \in Procs |-> "none"]
    /\ copy_src = [p \in Procs |-> NoCopy]
    /\ ret = [p \in Procs |-> NoRet]
    /\ calls = [p \in Procs |-> 0]
    /\ new_count = [p \in {} |-> 0]
    /\ call = [p \in Procs |-> NoCall]
    /\ file_src = NoSrc
    /\ backup_log = {}
    /\ ViewInit

NextUndo ==
    \/ \E c \in CropIds \ {UndoCrop} : add_illegible(1, c, MaxUndoCalls) /\ UNCHANGED view
    \/ remove_annotation(1, UndoCrop, MaxUndoCalls) /\ UNCHANGED view
    \/ save(1, DefaultMaxRetries, MaxUndoCalls) /\ UNCHANGED view
    \/ AcquireCheck(1) /\ UNCHANGED view
    \/ AcquireTouch(1) /\ UNCHANGED view
    \/ _create_backup(1) /\ UNCHANGED view
    \/ BackupCopy(1) /\ UNCHANGED view
    \/ ReadAndMerge(1) /\ UNCHANGED view
    \/ OpenTemp(1) /\ UNCHANGED view
    \/ Dump(1) /\ UNCHANGED view
    \/ Replace(1) /\ UNCHANGED view
    \/ ReleaseCheck(1) /\ UNCHANGED view
    \/ ReleaseUnlink(1) /\ UNCHANGED view
    \/ \E c \in CropIds : is_annotated(1, c) /\ UNCHANGED view

SpecUndo == InitUndo /\ [][NextUndo]_vars

(***************************************************************************)
(* SpecStale: two operators start over a file that holds the annotation of *)
(* StaleCrop and both load it.  Operator 1 annotates only other crops,     *)
(* operator 2 also annotates StaleCrop again; they take turns.  To store 1 *)
(* StaleCrop is an entry it loaded and never wrote.                        *)
(***************************************************************************)
StaleCrop == AllCropIds[1]

InitStale ==
    /\ lock_file = 0
    /\ annotations_file = JsonFile([c \in {StaleCrop} |-> StoredEntry(c)])
    /\ temp_file = NoFile
    /\ backups = EmptyDict
    /\ now = 0
    /\ pc = [p \in Procs |-> "idle"]
    /\ annotations = [p \in Procs |-> Loaded(annotations_file)]
    /\ attempt = [p \in Procs |-> 0]
    /\ max_retries = [p \in Procs |-> 0]
    /\ lock_acquired = [p \in Procs |-> FALSE]
    /\ existing_annotations = [p \in Procs |-> EmptyDict]
    /\ pending = [p \in Procs |-> "none"]
    /\ fd = [p \in Procs |-> "none"]
    /\ copy_src = [p \in Procs |-> NoCopy]
    /\ ret = [p \in Procs |-> NoRet]
    /\ calls = [p \in Procs |-> 0]
    /\ new_count = [p \in {} |-> 0]
    /\ call = [p \in Procs |-> NoCall]
    /\ file_src = NoSrc
    /\ backup_log = {}
    /\ ViewInit

NextStale ==
    \/ \E p \in Procs, c \in CropIds, d \in DateInputs :
          Turn(p) /\ (p = 1 => c # StaleCrop) /\ add_annotation(p, c, d, MaxStaleCalls) /\ UNCHANGED view
    \/ \E p \in Procs, c \in CropIds :
          Turn(p) /\ (p = 1 => c # StaleCrop) /\ add_illegible(p, c, MaxStaleCalls) /\ UNCHANGED view
    \/ \E p \in Procs : Turn(p) /\ save(p, DefaultMaxRetries, MaxStaleCalls) /\ UNCHANGED view
    \/ \E p \in Procs : Turn(p) /\ AcquireCheck(p) /\ UNCHANGED view
    \/ \E p \in Procs : Turn(p) /\ AcquireTouch(p) /\ UNCHANGED view
    \/ \E p \in Procs : Turn(p) /\ _create_backup(p) /\ UNCHANGED view
    \/ \E p \in Procs : Turn(p) /\ BackupCopy(p) /\ UNCHANGED view
    \/ \E p \in Procs : Turn(p) /\ ReadAndMerge(p) /\ UNCHANGED view
    \/ \E p \in Procs : Turn(p) /\ OpenTemp(p) /\ UNCHANGED view
    \/ \E p \in Procs : Turn(p) /\ Dump(p) /\ UNCHANGED view
    \/ \E p \in Procs : Turn(p) /\ Replace(p) /\ UNCHANGED view
    \/ \E p \in Procs : Turn(p) /\ ReleaseCheck(p) /\ UNCHANGED view
    \/ \E p \in Procs : Turn(p) /\ ReleaseUnlink(p) /\ UNCHANGED view
    \/ \E p \in Procs : Turn(p) /\ _load_existing(p) /\ UNCHANGED view

SpecStale == InitStale /\ [][NextStale]_vars

(***************************************************************************)
(* SpecKeep: two operators' stores are constructed over a directory whose  *)
(* annotation file already holds the annotation of KeptCrop; they add      *)
(* annotations and save concurrently.  Every save() is called while the    *)
(* file parses and holds KeptCrop.  There is no restore.                   *)
(***************************************************************************)
KeptCrop == AllCropIds[1]

\* the file parses and holds crop id c
Holds(file, c) == Parseable(file) /\ c \in DOMAIN file.data

InitKeep ==
    /\ lock_file = 0
    /\ annotations_file = JsonFile([c \in {KeptCrop} |-> StoredEntry(c)])
    /\ temp_file = NoFile
    /\ backups = EmptyDict
    /\ now = 0
    /\ pc = [p \in Procs |-> "idle"]
    /\ annotations = [p \in Procs |-> EmptyDict]
    /\ attempt = [p \in Procs |-> 0]
    /\ max_retries = [p \in Procs |-> 0]
    /\ lock_acquired = [p \in Procs |-> FALSE]
    /\ existing_annotations = [p \in Procs |-> EmptyDict]
    /\ pending = [p \in Procs |-> "none"]
    /\ fd = [p \in Procs |-> "none"]
    /\ copy_src = [p \in Procs |-> NoCopy]
    /\ ret = [p \in Procs |-> NoRet]
    /\ calls = [p \in Procs |-> 0]
    /\ new_count = [p \in {} |-> 0]
    /\ call = [p \in Procs |-> NoCall]
    /\ file_src = NoSrc
    /\ backup_log = {}
    /\ ViewInit

NextKeep ==
    \/ \E p \in Procs, c \in CropIds, d \in DateInputs : add_annotation(p, c, d, MaxKeepCalls) /\ UNCHANGED view
    \/ \E p \in Procs, mr \in 1..MaxRetries :
          Holds(annotations_file, KeptCrop) /\ save(p, mr, MaxKeepCalls) /\ UNCHANGED view
    \/ \E p \in Procs : AcquireCheck(p) /\ UNCHANGED view
    \/ \E p \in Procs : AcquireTouch(p) /\ UNCHANGED view
    \/ \E p \in Procs : AcquireTimeout(p) /\ UNCHANGED view
    \/ \E p \in Procs : _create_backup(p) /\ UNCHANGED view
    \/ \E p \in Procs : BackupCopy(p) /\ UNCHANGED view
    \/ \E p \in Procs : ReadAndMerge(p) /\ UNCHANGED view
    \/ \E p \in Procs : OpenTemp(p) /\ UNCHANGED view
    \/ \E p \in Procs : Dump(p) /\ UNCHANGED view
    \/ \E p \in Procs : Replace(p) /\ UNCHANGED view
    \/ \E p \in Procs : ReleaseCheck(p) /\ UNCHANGED view
    \/ \E p \in Procs : ReleaseUnlink(p) /\ UNCHANGED view

SpecKeep == InitKeep /\ [][NextKeep]_vars

(***************************************************************************)
(* Properties of the concurrent annotation store.                          *)
(***************************************************************************)
\* the lock-protected section of save: backup, re-read, merge, temp write, rename
InBlock == {"backup", "backup_copy", "read", "open_temp", "dump", "replace"}

\* C1: mutual exclusion -- at most one process is inside the lock-protected
\* section of save at any time, under every interleaving of the steps of
\* acquire (existence check, then creation) and release.
C1_MutualExclusion ==
    \A p, q \in Procs : (p # q /\ pc[p] \in InBlock) => pc[q] \notin InBlock

\* C2: no lost update -- when two processes holding disjoint keys have both
\* completed the write of their save, the file contains every key of both.
C2_NoLostUpdate ==
    \A p, q \in Procs :
        (/\ p # q
         /\ ret[p].op = "save" /\ ret[p].via = "written"
         /\ ret[q].op = "save" /\ ret[q].via = "written"
         /\ (DOMAIN annotations[p]) \cap (DOMAIN annotations[q]) = {})
        => ((DOMAIN annotations[p]) \cup (DOMAIN annotations[q])) \subseteq DOMAIN annotations_file.data

\* C4: atomic visibility -- every step of a save, and a kill at any step,
\* leaves the annotation file as it was or installs, by the rename, the
\* complete merged document of a saving process; no partial file shows.
C4_AtomicVisibility ==
    [][\/ annotations_file' = annotations_file
       \/ \E p \in Procs : /\ pc[p] = "replace"
                           /\ annotations_file' = JsonFile(json_dump(existing_annotations[p]))]_vars

\* C5: state unchanged on lock failure -- a save() that returned without any
\* of its attempts acquiring the lock returned by exhausting its attempts,
\* left the in-memory collection as it was at the call, and wrote neither
\* the annotation file nor the backup directory (nor the temp file).
C5_UnchangedOnLockFailure ==
    \A p \in Procs :
        (ret[p].op = "save" /\ ~call[p].acquired)
        => /\ ret[p].via = "exhausted"
           /\ annotations[p] = call[p].annotations
           /\ call[p].wrote = {}

\* a save() gave up on a held lock with entries in memory, while the file
\* another process wrote is on disk
C5_Witness ==
    \E p \in Procs :
        /\ ret[p].op = "save" /\ ret[p].via = "exhausted" /\ ~call[p].acquired
        /\ annotations[p] # EmptyDict
        /\ Parseable(annotations_file)
        /\ lock_file # 0

\* C6: visible failure -- a save() whose attempts all failed hands its
\* caller something else than a save() that wrote the file does.
C6_VisibleFailure ==
    \A p, q \in Procs :
        (/\ ret[p].op = "save" /\ ret[p].via = "exhausted"
         /\ ret[q].op = "save" /\ ret[q].via = "written")
        => ret[p].value # ret[q].value

OnDisk(file) == IF Parseable(file) THEN file.data ELSE EmptyDict

\* C3: sequential merge -- when saves do not overlap, the rename of a save
\* leaves a complete document whose keys are those on disk and those in
\* memory, with the in-memory entry for every key in memory and the on-disk
\* entry for every other key (so {x: v1} saved by A survives B's save of
\* {y: v2}).
C3_SequentialMerge ==
    [][\A p \in Procs :
          (pc[p] = "replace" /\ pc'[p] = "release" /\ pending'[p] = "return")
          => /\ Parseable(annotations_file')
             /\ DOMAIN annotations_file'.data
                    = (DOMAIN OnDisk(annotations_file)) \cup (DOMAIN annotations[p])
             /\ \A c \in DOMAIN annotations_file'.data :
                    annotations_file'.data[c] =
                        IF c \in DOMAIN annotations[p]
                        THEN JsonDumpEntry(to_dict(annotations[p][c]))
                        ELSE OnDisk(annotations_file)[c]]_vars

\* store B has saved over a file (kept as the backup) that held a key B
\* never held and a key B holds with another value: the file has both keys,
\* the first as it was on disk, the second with B's value
C3_Witness ==
    \E p \in Procs :
        /\ file_src.by = p /\ ~file_src.fresh
        /\ ret[p].op = "save" /\ ret[p].via = "written"
        /\ Parseable(annotations_file)
        /\ \E n \in DOMAIN backups :
              /\ Parseable(backups[n])
              /\ \E c \in DOMAIN backups[n].data :
                    /\ c \notin DOMAIN annotations[p]
                    /\ c \in DOMAIN annotations_file.data
                    /\ annotations_file.data[c] = backups[n].data[c]
              /\ \E c \in DOMAIN backups[n].data :
                    /\ c \in DOMAIN annotations[p]
                    /\ backups[n].data[c] # JsonDumpEntry(to_dict(annotations[p][c]))
                    /\ annotations_file.data[c] = JsonDumpEntry(to_dict(annotations[p][c]))

\* C8: save then load round trip -- a store that loads a file which a save
\* wrote where no file was holds the saving store's collection, crop id by
\* crop id and field by field.
C8_RoundTrip ==
    [][\A q \in Procs :
          (_load_existing(q) /\ file_src.fresh)
          => /\ DOMAIN annotations'[q] = DOMAIN file_src.annotations
             /\ \A c \in DOMAIN file_src.annotations :
                    annotations'[q][c] = file_src.annotations[c]]_vars

\* another store has loaded a freshly saved file that holds a dated and an
\* illegible annotation
C8_Witness ==
    \E q \in Procs :
        /\ ret[q].op = "load" /\ ret[q].value = None
        /\ file_src.fresh /\ file_src.by # q
        /\ annotations[q] = file_src.annotations
        /\ \E c \in DOMAIN annotations[q] : annotations[q][c].status = "ANNOTATED"
        /\ \E c \in DOMAIN annotations[q] : annotations[q][c].expiry_date = None

\* C10: restore success -- a restore_from_backup that found a backup
\* returns true, with the live file equal to the backup of the greatest
\* timestamp name and the in-memory collection equal to that file's content.
C10_RestoreSucceeds ==
    [][\A p \in Procs :
          (pc[p] = "restore_load" /\ pc'[p] = "idle")
          => /\ ret'[p].value = "True"
             /\ annotations_file' = backups[LatestName(backups)]
             /\ Parseable(annotations_file')
             /\ annotations'[p] = [c \in DOMAIN annotations_file'.data |->
                                      from_dict(c, json_load(annotations_file'.data)[c])]]_vars

\* the n smallest names of a set of backup names
Oldest(names, n) == {t \in names : Cardinality({u \in names : u < t}) < n}

\* C9 as stated: after 12 successive successful saves by one store over an
\* empty directory, exactly 10 backups remain and the 2 oldest created
\* backups have been pruned (taken in the case most favourable to it, where
\* no two of the backups written share a clock second).
C9_TwoPruned ==
    (pc[1] = "idle" /\ calls[1] = 12 /\ ret[1].via = "written" /\ Cardinality(backup_log) >= 11)
    => /\ Cardinality(DOMAIN backups) = KeepBackups
       /\ Cardinality(backup_log \ DOMAIN backups) = 2
       /\ backup_log \ DOMAIN backups = Oldest(backup_log, 2)

\* C9 amended: the first of the 12 saves finds no file and writes no backup,
\* and a backup is named by the clock second, so at most 11 backups were
\* created; the backups that remain are the (at most 10) newest created, at
\* most 1 has been pruned, and when the later 11 saves fell in 11 distinct
\* seconds exactly 10 remain and exactly the oldest 1 has been pruned.
C9_BackupRotation ==
    (pc[1] = "idle" /\ calls[1] = 12 /\ ret[1].via = "written")
    => /\ Cardinality(backup_log) <= 11
       /\ Cardinality(DOMAIN backups) <= KeepBackups
       /\ DOMAIN backups = backup_log \ Oldest(backup_log, Cardinality(backup_log) - KeepBackups)
       /\ Cardinality(backup_log \ DOMAIN backups) <= 1
       /\ Cardinality(backup_log) = 11
              => /\ Cardinality(DOMAIN backups) = KeepBackups
                 /\ backup_log \ DOMAIN backups = Oldest(backup_log, 1)

\* the 12th save has returned and the saves after the first fell in 11
\* distinct seconds
C9_Witness ==
    /\ pc[1] = "idle" /\ calls[1] = 12 /\ ret[1].via = "written"
    /\ Cardinality(backup_log) = 11
    /\ Cardinality(DOMAIN backups) = KeepBackups

\* C11: restore without backup -- a restore_from_backup that finds the
\* backup directory empty returns False, raises nothing, and leaves the live
\* file and the caller's in-memory collection as they were.
C11_RestoreWithoutBackup ==
    [][\A p \in Procs :
          (RestoreBegin(p) /\ DOMAIN backups = {})
          => /\ ret'[p] = [op |-> "restore", value |-> "False", via |-> "none"]
             /\ pc'[p] = "idle"
             /\ annotations_file' = annotations_file
             /\ annotations'[p] = annotations[p]
             /\ backups' = backups]_vars

\* a store holding unsaved annotations that differ from the existing live
\* file has been refused a restore for want of a backup
C11_Witness ==
    \E p \in Procs :
        /\ ret[p] = [op |-> "restore", value |-> "False", via |-> "none"]
        /\ DOMAIN backups = {}
        /\ Parseable(annotations_file)
        /\ annotations[p] # EmptyDict
        /\ DOMAIN annotations[p] # DOMAIN annotations_file.data

\* C12: validation is a pure, total check -- validate_json_integrity hands
\* back True or False and raises nothing, leaves the file, the backups and
\* every in-memory collection as they were, and for an existing file returns
\* False exactly when the content does not parse, is not a mapping, or has
\* an entry without one of image, subset, class_name, status.
C12_ValidationPure ==
    [][\A p \in Procs :
          (validate_json_integrity(p) \/ StartValidate(p))
          => /\ ret'[p].op = "validate"
             /\ ret'[p].value \in {"True", "False"}
             /\ annotations_file' = annotations_file
             /\ backups' = backups
             /\ annotations' = annotations
             /\ ~Exists(annotations_file) => ret'[p].value = "True"
             /\ Exists(annotations_file)
                  => (ret'[p].value = "False"
                        <=> \/ annotations_file.kind \in {"empty", "partial"}
                            \/ annotations_file.kind = "array"
                            \/ \E c \in DOMAIN annotations_file.data :
                                  \E field \in {"image", "subset", "class_name", "status"} :
                                      field \notin DOMAIN annotations_file.data[c])]_vars

\* validate has returned False for a document that parses, is a mapping and
\* has an entry with every required field but status
C12_Witness ==
    \E p \in Procs :
        /\ pc[p] = "idle"
        /\ ret[p].op = "validate" /\ ret[p].value = "False"
        /\ Parseable(annotations_file)
        /\ \E c \in DOMAIN annotations_file.data :
              /\ {"image", "subset", "class_name"} \subseteq DOMAIN annotations_file.data[c]
              /\ "status" \notin DOMAIN annotations_file.data[c]
        /\ annotations[p] # EmptyDict

\* C13: no silent correction -- an annotation file that exists and does not
\* parse keeps its content under every step of the store, save included;
\* only a change from outside the program or the restore the operator chose
\* puts other content in its place.
C13_NoSilentCorrection ==
    [][(annotations_file.kind \in {"empty", "partial"} /\ annotations_file' # annotations_file)
       => \/ \E f \in PersistedFiles : External(f)
          \/ \E p \in Procs : PromptYes(p)]_vars

\* C14: integrity errors do not end the process -- over a damaged annotation
\* file (one that does not parse, or with an entry lacking a required field)
\* the start-up sequence goes on to validate and to the offer of a restore;
\* the program is never ended by an exception of the start-up load.
C14_StartupReachesPrompt ==
    \A p \in Procs : ~(pc[p] = "crashed" /\ ret[p].op = "load" /\ ret[p].via = "startup")

\* the steps of a store operation that open the annotation file to read it
\* or to write it
TouchesFile(p) ==
    \/ _load_existing(p)
    \/ \E c \in CropIds : is_annotated(p, c) /\ annotations[p] = EmptyDict
    \/ get_annotation_count(p)
    \/ validate_json_integrity(p)
    \/ RestoreBegin(p) /\ DOMAIN backups # {}
    \/ RestoreCopy(p)
    \/ RestoreLoad(p)
    \/ _create_backup(p)
    \/ ReadAndMerge(p)
    \/ Replace(p)

\* C15: lock discipline -- every step of a store operation (load, the
\* reload inside is_annotated, count, validate, restore, save) that reads or
\* writes the existing annotation file is taken by a process that holds the
\* lock at that moment.
C15_LockDiscipline ==
    [][\A p \in Procs :
          (TouchesFile(p) /\ Exists(annotations_file))
          => (lock_acquired[p] /\ lock_file # 0)]_vars

\* C16: count reflects disk -- get_annotation_count returns the number of
\* entries of the annotation file as it is at the call, 0 when there is no
\* file, whatever the caller's in-memory collection holds, and leaves that
\* collection and the file as they were.
C16_CountReflectsDisk ==
    [][\A p \in Procs :
          get_annotation_count(p)
          => /\ ret'[p].op = "count"
             /\ ~Exists(annotations_file) => ret'[p].value = 0
             /\ Parseable(annotations_file)
                  => ret'[p].value = Cardinality(DOMAIN annotations_file.data)
             /\ annotations' = annotations
             /\ annotations_file' = annotations_file]_vars

\* a store whose collection is stale (the file has an entry it does not
\* hold) and of another size than the file has been told the file's count
C16_Witness ==
    \E p \in Procs :
        /\ Parseable(annotations_file)
        /\ ret[p].op = "count"
        /\ ret[p].value = Cardinality(DOMAIN annotations_file.data)
        /\ ret[p].value # Cardinality(DOMAIN annotations[p])
        /\ annotations[p] # EmptyDict
        /\ \E c \in DOMAIN annotations_file.data : c \notin DOMAIN annotations[p]

\* C17: is_annotated consults the file when the key is not in memory -- for
\* a crop_id that the caller's collection does not hold and the annotation
\* file does, is_annotated returns True, the collection being empty or not.
C17_ConsultsFile ==
    [][\A p \in Procs : \A c \in CropIds :
          (/\ is_annotated(p, c)
           /\ c \notin DOMAIN annotations[p]
           /\ Parseable(annotations_file)
           /\ c \in DOMAIN annotations_file.data)
          => ret'[p].value = "True"]_vars

\* C18: load replaces the cache -- when _load_existing returns, the caller's
\* collection holds exactly the crop ids of the annotation file, each with
\* the fields of its entry on disk, and nothing it held before; over an
\* absent file it returns with the collection empty.
C18_LoadReplaces ==
    [][\A p \in Procs :
          (_load_existing(p) /\ LoadException(annotations_file) = "none")
          => /\ ret'[p] = [op |-> "load", value |-> None, via |-> "none"]
             /\ DOMAIN annotations'[p] = DOMAIN OnDisk(annotations_file)
             /\ \A c \in DOMAIN annotations'[p] :
                   /\ annotations'[p][c].crop_id = c
                   /\ JsonDumpEntry(to_dict(annotations'[p][c])) = annotations_file.data[c]
             /\ ~Exists(annotations_file) => annotations'[p] = EmptyDict
             /\ annotations_file' = annotations_file]_vars

\* a store has loaded a file that two saves built up, and holds its two
\* entries
C18_Witness ==
    \E p \in Procs :
        /\ ret[p] = [op |-> "load", value |-> None, via |-> "none"]
        /\ Parseable(annotations_file) /\ ~file_src.fresh /\ file_src.by # 0
        /\ Cardinality(DOMAIN annotations_file.data) = 2
        /\ DOMAIN annotations[p] = DOMAIN annotations_file.data

\* a commit of crop id c by the one store of SpecCad
CommitOf(c) ==
    \/ \E d \in DateInputs : add_annotation(1, c, d, MaxCadCalls)
    \/ add_illegible(1, c, MaxCadCalls)

\* C19 as stated: in any sequence of commits, replacing ones and ones made
\* after a load of a non-empty collection or after an undo included, a
\* commit starts a save exactly when it is the 5th, 10th, ... new annotation
\* (one of a crop id the collection did not hold).
C19_EveryFifthNew ==
    [][\A c \in CadCrops :
          CommitOf(c)
          => (pc'[1] = "acquire" <=> (c \notin DOMAIN annotations[1] /\ new_count'[1] = 0))]_vars

\* C19 amended: a commit starts a save exactly when the collection holds a
\* multiple of 5 entries after it, whether the commit added a crop id or
\* replaced one; for a commit of a new crop id into a collection whose size
\* is the number of new annotations made (it started empty and nothing was
\* undone) that is every 5th new annotation and no other.
C19_AutoSaveCadence ==
    [][\A c \in CadCrops :
          CommitOf(c)
          => /\ pc'[1] = "acquire" <=> Cardinality(DOMAIN annotations'[1]) % SaveInterval = 0
             /\ pc'[1] = "acquire" => (max_retries'[1] = DefaultMaxRetries /\ call'[1].annotations = annotations'[1])
             /\ (c \notin DOMAIN annotations[1]
                 /\ Cardinality(DOMAIN annotations'[1]) % SaveInterval = new_count'[1])
                => (pc'[1] = "acquire" <=> new_count'[1] = 0)]_vars

\* a commit has just started a save with 5 entries in the collection
\* although the new annotations made so far are not a multiple of 5
C19_Witness ==
    /\ pc[1] = "acquire" /\ attempt[1] = 0 /\ ~call[1].acquired
    /\ Cardinality(DOMAIN annotations[1]) = SaveInterval
    /\ new_count[1] # 0
    /\ annotations_file # NoFile

\* C20: bounded save -- a save(max_retries) in progress is in one of its
\* first max_retries attempts; once an attempt has completed the write the
\* call makes no further attempt; and every call is eventually left (by
\* return, or the process being killed), also when the lock stays held.
C20_BoundedSave ==
    /\ [](\A p \in Procs : pc[p] \notin {"idle", "stopped"} => attempt[p] < max_retries[p])
    /\ [][\A p \in Procs :
             (pc[p] \in {"release", "unlink"} /\ pending[p] = "return")
             => pc'[p] \in {"release", "unlink", "idle", "stopped"}]_vars
    /\ \A p \in Procs : (pc[p] = "acquire") ~> (pc[p] \in {"idle", "stopped"})

\* a save() is at its last attempt, the earlier ones having timed out on the
\* sentinel of a process that was killed while holding it
C20_Witness ==
    \E p \in Procs :
        /\ pc[p] = "acquire"
        /\ max_retries[p] = MaxRetries
        /\ attempt[p] = max_retries[p] - 1
        /\ ~call[p].acquired
        /\ lock_file \notin {0, p}
        /\ pc[lock_file] = "stopped"

\* C21: lock timeout outcome -- an acquisition against a sentinel that is
\* present for the whole timeout fails (acquire returns False, the scoped
\* entry raises TimeoutError), leaves the sentinel as it is and the caller
\* not marked as holder; and whatever the caller does next, release
\* included, does not remove the sentinel.
C21_TimeoutOutcome ==
    [][\A p \in Procs :
         /\ (pc[p] \in LockModes /\ pc'[p] = "lk_failed")
            => /\ lock_file' = lock_file
               /\ lock_file' # 0
               /\ ~lock_acquired'[p]
               /\ ret'[p].value = (IF pc[p] = "lk_enter" THEN "TimeoutError" ELSE "False")
         /\ (pc[p] = "lk_failed" /\ pc'[p] # "lk_failed")
            => /\ pc'[p] = "idle"
               /\ lock_file' = lock_file]_vars

\* a caller whose scoped entry timed out has called release, and the other
\* holder's sentinel is still there
C21_Witness ==
    \E p \in Procs :
        /\ pc[p] = "idle"
        /\ ret[p] = [op |-> "release", value |-> None, via |-> "after_failure"]
        /\ lock_file \notin {0, p}
        /\ pc[lock_file] = "lk_held"

\* the zoomed image dimension, to the nearest pixel
ZoomedDim(dim, zoom) == Max(1, Round(QMul(QInt(dim), zoom)))

\* C22: auto-frame bounds -- for every region, image size, display size and
\* window size, calculate_auto_zoom returns a zoom in [min_zoom, max_zoom]
\* and a pan_x and a pan_y in [0, max(0, zoomed image dimension - window
\* dimension)] for that zoom.
C22_AutoFrameBounds ==
    result.f = "calculate_auto_zoom"
    => /\ QLeq(auto_min_zoom, result.zoom)
       /\ QLeq(result.zoom, max_zoom)
       /\ 0 <= result.pan_x
       /\ result.pan_x <= Max(0, ZoomedDim(args.img_width, result.zoom) - args.window_w)
       /\ 0 <= result.pan_y
       /\ result.pan_y <= Max(0, ZoomedDim(args.img_height, result.zoom) - args.window_h)

\* a frame whose zoom was cut to max_zoom and whose pan was cut to the
\* greatest pan, which is not 0
C22_Witness ==
    /\ result.f = "calculate_auto_zoom"
    /\ result.zoom = max_zoom
    /\ result.pan_x > 0
    /\ result.pan_x = ZoomedDim(args.img_width, result.zoom) - args.window_w

\* the scenario: box (0.4, 0.4, 0.2, 0.2) on a 1000 x 1000 image, window
\* 640 x 640, framed on the display size get_display_size gave
Scenario ==
    /\ result.f = "calculate_auto_zoom"
    /\ result.sized
    /\ args.box = Bbox(400, 400, 200, 200)
    /\ args.img_width = 1000
    /\ args.img_height = 1000
    /\ args.window_w = 640
    /\ args.window_h = 640

\* the pan puts the centre of the region (x and y 400 in the image) at the
\* centre of the window, and lies within the pan bounds
ScenarioCentered ==
    /\ result.pan_x + args.window_w \div 2 = Round(QMul(QInt(400), result.zoom))
    /\ result.pan_y + args.window_h \div 2 = Round(QMul(QInt(400), result.zoom))
    /\ result.pan_x \in 0..(ZoomedDim(1000, result.zoom) - 640)
    /\ result.pan_y \in 0..(ZoomedDim(1000, result.zoom) - 640)

\* C23 as stated: in the scenario the zoom is clamped to 5.0 and the pan
\* centers the region within the pan bounds.
C23_ZoomClampsToMax ==
    Scenario => (result.zoom = max_zoom /\ ScenarioCentered)

\* C23: auto-frame scenario -- the zoom is 2.4 (0.6 x 800 / 200, inside
\* [0.1, 5.0] and not clamped), the pan is (640, 640), and that pan centers
\* the region within the pan bounds.
C23_Scenario ==
    Scenario => (result.zoom = Q(12, 5) /\ result.pan_x = 640 /\ result.pan_y = 640 /\ ScenarioCentered)

C23_Witness == Scenario /\ args.display_w = 800 /\ args.display_h = 800

\* C28: display size upper bound -- for every image of at least 1 x 1,
\* get_display_size gives at most max_width by max_height.
C28_DisplaySizeBound ==
    result.f = "get_display_size"
    => (result.display_w <= max_width /\ result.display_h <= max_height)

\* a candidate is valid: its area is between 1% and 95% of the image area,
\* both ends included, and its width and height are at least 50
ValidCandidate(b, w, h) ==
    /\ b # NoBox
    /\ 100 * (b[3] - b[1]) * (b[4] - b[2]) >= w * h
    /\ 100 * (b[3] - b[1]) * (b[4] - b[2]) <= 95 * w * h
    /\ b[3] - b[1] >= 50
    /\ b[4] - b[2] >= 50

\* C27: content-bbox fallback chain -- the detector returns the candidate
\* of the first strategy, in the order low threshold, high threshold, edges,
\* local variance, whose candidate is valid, and none when no candidate is
\* valid; so every returned box is valid.
C27_FallbackChain ==
    result.f = "detect"
    => LET valid == {i \in DOMAIN Strategies : ValidCandidate(args.found[i], args.w, args.h)}
       IN  /\ valid = {} => result.bbox = NoBox
           /\ valid # {} => result.bbox = args.found[CHOOSE i \in valid : \A j \in valid : i <= j]
           /\ result.bbox # NoBox => ValidCandidate(result.bbox, args.w, args.h)

\* the low threshold found a box just over 95%, the high threshold one
\* under 1%, the edges one of exactly 95%, the variance one of exactly 1%:
\* the box of the edges is returned
C27_Witness ==
    /\ result.f = "detect"
    /\ args.found = << <<0, 0, 951, 1000>>, <<100, 100, 199, 200>>, <<0, 0, 950, 1000>>, <<0, 0, 100, 100>> >>
    /\ result.bbox = <<0, 0, 950, 1000>>

\* C24: window-size invariant -- every crop _apply_zoom_pan produces, for
\* any zoom, any pan and any image of at least 1 x 1, has exactly
\* window_width columns and window_height rows, the columns and rows the
\* zoomed image does not cover being padding.
C24_WindowSize ==
    shown.frames = 1
    => /\ shown.frame.cols = window_width
       /\ shown.frame.rows = window_height
       /\ shown.frame.pad_right \in 0..(window_width - 1)
       /\ shown.frame.pad_bottom \in 0..(window_height - 1)

\* a frame of the window's size that was padded on both sides
C24_Witness ==
    /\ shown.frames = 1
    /\ shown.frame.cols = window_width
    /\ shown.frame.rows = window_height
    /\ shown.frame.pad_right > 0
    /\ shown.frame.pad_bottom > 0

\* C25: zoom bounds invariant -- in every reachable viewport state, after
\* any set_zoom_pan calls (zero and negative zoom included) and zoom-in,
\* zoom-out and reset keys, zoom_level is at least MIN_ZOOM_FOR_SAFETY and
\* at most max_zoom.
C25_ZoomBounds ==
    /\ QLeq(MIN_ZOOM_FOR_SAFETY, display.zoom_level)
    /\ QLeq(display.zoom_level, max_zoom)

\* set_zoom_pan was called with zoom 0, and the zoom-out key was then
\* handled at the floor
C25_Witness ==
    /\ decision.calls > 0
    /\ render.pc = "key_pan"
    /\ render.key = "e"
    /\ render.old_zoom = MIN_ZOOM_FOR_SAFETY
    /\ display.zoom_level = MIN_ZOOM_FOR_SAFETY

\* the greatest pan on an axis, for the zoomed image the display makes
MaxPan(img, zoom, window) == Max(0, Max(1, Trunc(QMul(QInt(img), zoom))) - window)

\* C26: pan clamp -- after any pan key (up, down, left, right), handled in
\* any reachable state with an image on display, pan_x and pan_y lie in
\* [0, max_pan] for their axis.
C26_PanClamp ==
    [][(/\ render.pc = "waitkey"
        /\ render'.keys = render.keys + 1
        /\ render'.key \in PanKeys
        /\ display.current_image # NoImage)
       => /\ display'.pan_x \in 0..MaxPan(display.current_image.w, display'.zoom_level, window_width)
          /\ display'.pan_y \in 0..MaxPan(display.current_image.h, display'.zoom_level, window_height)]_vars

\* C29: no torn viewport reads -- no frame is rendered from the zoom one
\* set_zoom_pan call wrote together with a pan_x or pan_y written before
\* that call or by a different call.
C29_NoTornRead == ~shown.frame.torn

\* C30: render loop stops -- once stop() has set the stop flag, the display
\* loop finishes at most the iteration it is in (its next loop test leaves
\* the loop), it exits eventually when the render thread is scheduled
\* fairly, and after its exit it handles no key and renders no frame.
C30_RenderLoopStops ==
    /\ (display.stop_flag ~> render.pc = "exited")
    /\ [][(render.pc = "test" /\ render'.pc # "test" /\ display.stop_flag)
          => render'.pc = "exited"]_vars
    /\ [][render.pc = "exited"
          => (render' = render /\ shown'.frame = shown.frame /\ shown'.frames = shown.frames)]_vars

\* a frame was shown and a key handled, then stop() was called, its join
\* has returned and the loop has exited
C30_Witness ==
    /\ display.stop_flag
    /\ decision.pc = "stopped"
    /\ render.pc = "exited"
    /\ render.keys > 0
    /\ shown.frames = 1

\* C33: auto-frame totality -- calculate_auto_zoom returns a zoom and pan
\* for every input, without a division by zero or another error: regions
\* without width or height, an image width of 0, and display sizes with a
\* width or height of 0 included.
C33_AutoFrameTotal == ~(result.f = "raised" /\ result.by = "calculate_auto_zoom")

\* _handle_key(key) runs in this step
Handles(key) == render.pc = "waitkey" /\ render'.pc # "waitkey" /\ render'.key = key

\* the pan shows the image point c (in image pixels, times two) at the
\* centre of the window, to the pixel
CentredOn(pan, window, twice_c, zoom) ==
    LET centre == QMul(Q(twice_c, 2), zoom)
    IN  QLeq(QInt(pan + window \div 2), centre) /\ QLess(QSub(centre, QInt(1)), QInt(pan + window \div 2))

\* C31: reset frame -- the reset key leaves zoom_level and rotation
\* unchanged, sets brightness and contrast to their defaults and, with an
\* image on display, sets pan_x and pan_y to a recentring value within
\* [0, max_pan] at the current zoom (the centre of the detected region where
\* the bounds allow it, else of the image); the rotation-reset key changes
\* the rotation only.
C31_ResetFrame ==
    [][/\ Handles("r")
          => /\ display'.zoom_level = display.zoom_level
             /\ display'.rotation = display.rotation
             /\ display'.brightness = 0
             /\ display'.contrast = QInt(1)
             /\ display.current_image # NoImage
                => LET image == display.current_image
                       max_x == MaxPan(image.w, display.zoom_level, window_width)
                       max_y == MaxPan(image.h, display.zoom_level, window_height)
                   IN  /\ display'.pan_x \in 0..max_x
                       /\ display'.pan_y \in 0..max_y
                       /\ (image.bbox # NoBox /\ display'.pan_x \in 1..(max_x - 1))
                          => CentredOn(display'.pan_x, window_width, image.bbox[1] + image.bbox[3], display.zoom_level)
                       /\ (image.bbox # NoBox /\ display'.pan_y \in 1..(max_y - 1))
                          => CentredOn(display'.pan_y, window_height, image.bbox[2] + image.bbox[4], display.zoom_level)
       /\ Handles("t")
          => display' = [display EXCEPT !.rotation = 0, !.should_update = TRUE]]_vars

\* the reset key was handled on a turned image at a zoom other than 1.0:
\* the zoom and the rotation are as they were, the brightness is the
\* default and the pan centres the detected region
C31_Witness ==
    /\ render.key = "r"
    /\ render.pc = "test"
    /\ display.zoom_level = Q(12, 5)
    /\ display.rotation = 350
    /\ display.brightness = 0
    /\ display.current_image = ViewImages[1]
    /\ display.pan_x = 760
    /\ display.pan_y = 1000

\* the pan after a zoom key, on one axis: within [0, max_pan] at the new
\* zoom and, where it is strictly inside, showing at the centre of the
\* window (to the pixel) the image point that the stored pan had there
Reanchored(pan, new_pan, window, img, zoom, old_zoom) ==
    LET new_centre == QMul(QInt(pan + window \div 2), QDiv(zoom, old_zoom))
        max_pan == MaxPan(img, zoom, window)
    IN  /\ new_pan \in 0..max_pan
        /\ new_pan \in 1..(max_pan - 1)
           => /\ QLeq(QInt(new_pan + window \div 2), new_centre)
              /\ QLess(QSub(new_centre, QInt(1)), QInt(new_pan + window \div 2))

\* the second half of a zoom key: the pan follows the zoom
PanFollows ==
    (render.pc = "key_pan" /\ render'.pc = "test" /\ display.current_image # NoImage)
    => /\ display'.zoom_level = display.zoom_level
       /\ Reanchored(display.pan_x, display'.pan_x, window_width, display.current_image.w, display.zoom_level, render.old_zoom)
       /\ Reanchored(display.pan_y, display'.pan_y, window_height, display.current_image.h, display.zoom_level, render.old_zoom)

Clamped(zoom) == QMax(MIN_ZOOM_FOR_SAFETY, QMin(max_zoom, zoom))

\* C32 as stated: a zoom-in key multiplies the zoom by the configured step
\* and a zoom-out key divides it by the step, subject to the zoom clamps,
\* and the pan is re-anchored on the window centre and re-clamped.
C32_ZoomStepMultiplies ==
    [][/\ Handles("q") => display'.zoom_level = Clamped(QMul(display.zoom_level, zoom_step))
       /\ Handles("e") => display'.zoom_level = Clamped(QDiv(display.zoom_level, zoom_step))
       /\ PanFollows]_vars

\* C32: zoom step and re-anchoring -- a zoom-in key adds the configured step
\* to the zoom and a zoom-out key subtracts it (subject to the zoom clamps),
\* and the pan is recomputed from the stored pan so that the image point
\* shown at the window centre stays there, then re-clamped to [0, max_pan].
C32_ZoomStepAdds ==
    [][/\ Handles("q") => display'.zoom_level = Clamped(QAdd(display.zoom_level, zoom_step))
       /\ Handles("e") => display'.zoom_level = Clamped(QSub(display.zoom_level, zoom_step))
       /\ PanFollows]_vars

\* zoom-in was handled at zoom 1.0 with pan_x 50 on the 1000 x 1000 image:
\* the zoom is 1.2 and the pan 124, strictly inside [0, 560]
C32_Witness ==
    /\ render.key = "q"
    /\ render.pc = "test"
    /\ display.current_image = ViewImages[1]
    /\ display.zoom_level = Q(6, 5)
    /\ display.pan_x = 124

\* the viewport after set_zoom_pan(zoom, pan_x, pan_y) run alone on d
SetZoomPanAlone(d, zoom, pan_x, pan_y) ==
    [d EXCEPT !.zoom_level = QMin(QMax(MIN_ZOOM_FOR_SAFETY, zoom), max_zoom),
              !.pan_x = Max(0, pan_x), !.pan_y = Max(0, pan_y),
              !.brightness = 0, !.contrast = QInt(1), !.rotation = 0, !.should_update = TRUE]

\* the viewport after _handle_key(key) run alone on d
HandleKeyAlone(d, key) ==
    LET image == d.current_image
        zoom == IF key = "q" THEN ZoomedIn(d.zoom_level) ELSE IF key = "e" THEN ZoomedOut(d.zoom_level) ELSE d.zoom_level
    IN  [d EXCEPT
           !.zoom_level = zoom,
           !.pan_x = IF key \in ZoomKeys /\ image # NoImage THEN RecentredPan(@, window_width, image.w, zoom, d.zoom_level)
                     ELSE IF key = "a" THEN Max(0, @ - pan_step)
                     ELSE IF key = "d" THEN @ + pan_step
                     ELSE IF key = "r" THEN ResetPan(@, window_width, image.w, image.bbox[1], image.bbox[3], zoom, image) ELSE @,
           !.pan_y = IF key \in ZoomKeys /\ image # NoImage THEN RecentredPan(@, window_height, image.h, zoom, d.zoom_level)
                     ELSE IF key = "w" THEN Max(0, @ - pan_step)
                     ELSE IF key = "s" THEN @ + pan_step
                     ELSE IF key = "r" THEN ResetPan(@, window_height, image.h, image.bbox[2], image.bbox[4], zoom, image) ELSE @,
           !.brightness = IF key = "r" THEN 0
                          ELSE IF key = "b" THEN Min(@ + brightness_step, 100)
                          ELSE IF key = "v" THEN Max(@ - brightness_step, -100) ELSE @,
           !.contrast = IF key = "r" THEN QInt(1)
                        ELSE IF key = "c" THEN QMin(QAdd(@, contrast_step), QInt(3))
                        ELSE IF key = "x" THEN QMax(QSub(@, contrast_step), Q(1, 10)) ELSE @,
           !.rotation = IF key = "n" THEN (@ + rotation_step) % 360
                        ELSE IF key = "m" THEN (@ - rotation_step) % 360
                        ELSE IF key = "t" THEN 0 ELSE @,
           !.should_update = TRUE]

Viewport(d) == <<d.zoom_level, d.pan_x, d.pan_y, d.brightness, d.contrast, d.rotation>>

\* the set_zoom_pan call and the key handler have both run to their end
PairDone == decision.calls = 1 /\ decision.pc = "loop" /\ render.keys = 1 /\ render.pc = "test"

\* C40: serializable viewport updates -- when one set_zoom_pan call and one
\* key-handler execution have both run, overlapping or not, zoom_level,
\* pan_x, pan_y, brightness, contrast and rotation are those of one of the
\* two sequential orders: set_zoom_pan then the key, or the key then
\* set_zoom_pan.
C40_Serializable ==
    PairDone
    => Viewport(display) \in
           { Viewport(HandleKeyAlone(SetZoomPanAlone(args.before, args.zoom, args.pan_x, args.pan_y), render.key)),
             Viewport(SetZoomPanAlone(HandleKeyAlone(args.before, render.key), args.zoom, args.pan_x, args.pan_y)) }

\* C35: undo reaches the disk -- when a save of the store has written the
\* file after the store removed a crop id with remove_annotation and did
\* not add it again, the on-disk file does not contain that crop id, also
\* when an earlier save had persisted it.
C35_UndoReachesDisk ==
    (/\ ret[1].op = "save" /\ ret[1].via = "written"
     /\ UndoCrop \notin DOMAIN annotations[1])
    => UndoCrop \notin DOMAIN OnDisk(annotations_file)

\* C37: remove is observed by the query -- is_annotated asked about a crop
\* id that remove_annotation took out of the collection, and that was not
\* added again, returns False, also when the collection is empty and the
\* file on disk holds the crop id.
C37_RemoveObserved ==
    [][(is_annotated(1, UndoCrop) /\ UndoCrop \notin DOMAIN annotations[1])
       => ret'[1].value = "False"]_vars

\* C36: no stale clobber -- the rename of a save leaves the on-disk value of
\* a key the saving store only loaded (it neither added nor replaced it
\* since its last load) as it was on disk before the rename, so a newer
\* value another process has put there stays.
C36_NoStaleClobber ==
    [][(/\ pc[1] = "replace" /\ pc'[1] = "release" /\ pending'[1] = "return"
        /\ StaleCrop \in DOMAIN OnDisk(annotations_file))
       => /\ Parseable(annotations_file')
          /\ StaleCrop \in DOMAIN annotations_file'.data
          /\ annotations_file'.data[StaleCrop] = annotations_file.data[StaleCrop]]_vars

\* C38: saves never drop keys -- when a save() that was called over a
\* parseable file holding a key returns, with any interleaving of the other
\* process's save, the file still parses and still holds that key.
C38_SavesKeepKeys ==
    [][\A p \in Procs :
          (pc[p] # "idle" /\ pc'[p] = "idle" /\ ret'[p].op = "save")
          => Holds(annotations_file', KeptCrop)]_vars

\* C39: recovery from a dead holder -- once a process has stopped with its
\* sentinel file in place, a save() that another process starts afterwards
\* eventually acquires the lock and writes the annotation file, unless that
\* process is killed too.
C39_DeadHolderRecovery ==
    \A p, q \in Procs :
        (p # q) =>
        []((pc[q] = "stopped" /\ lock_file = q /\ pc[p] = "idle" /\ calls[p] = 0)
           => [](pc[p] = "acquire"
                 => <>(\/ call[p].acquired /\ "file" \in call[p].wrote
                       \/ pc[p] = "stopped")))

\* C34: backup precedes replacement -- a save attempt writes its backup
\* while it holds the lock (its sentinel is in place), and when its rename
\* replaces an existing annotation file the newest backup is a copy of that
\* file as it is just before the rename, so that the latest backup gives
\* back the pre-save content.
C34_BackupPrecedes ==
    /\ [](\A p \in Procs :
             pc[p] \in {"backup", "backup_copy"} => (lock_acquired[p] /\ lock_file # 0))
    /\ [][\A p \in Procs :
             (/\ pc[p] = "replace" /\ pc'[p] = "release" /\ pending'[p] = "return"
              /\ Exists(annotations_file))
             => /\ "backup" \in call[p].wrote
                /\ DOMAIN backups # {}
                /\ backups[LatestName(backups)] = annotations_file]_vars

====
